---- MODULE Spec2Model ----
(***************************************************************************)
(* Verification model of the digital-twin cybersecurity simulation:        *)
(* SecurityEvaluator, ResilienceEnhancer, AttackPredictor, AnomalyDetector *)
(* and DigitalTwinGenerator, driven the way demo.py, the unit tests and    *)
(* SimulationEngine drive them.                                            *)
(*                                                                         *)
(* Numbers.  The Python code computes with floats; the model computes the  *)
(* same expressions exactly, as fractions [num, den] with den > 0.         *)
(* Time.  datetime.now() is read from the logical clock `clock`; an event  *)
(* carries its age in whole days, (datetime.now() - timestamp).days.       *)
(* Dictionaries.  A dict whose keys may be missing is a function whose     *)
(* DOMAIN is the set of keys present; the entity map, a dict in insertion  *)
(* order keyed by id, is a sequence of entity records with distinct ids.   *)
(***************************************************************************)
EXTENDS Integers, Sequences, FiniteSets, TLC

VARIABLES
    pc,                  \* position of the driver (demo.py main / a unit test)
    entities,            \* the entity map, in insertion order
    security_events,     \* the security-event list
    security_score,      \* demo.py: security_score (S0), NoScore before evaluation
    new_security_score,  \* demo.py: new_security_score (S1)
    recommendations,     \* list returned by generate_recommendations
    applied_count,       \* how many recommendations of the list were applied, in order
    last_rec,            \* the recommendation dict last passed to apply_recommendation, after the call
    success,             \* value returned by the last apply_recommendation
    attack_scenarios,    \* list returned by predict_attacks
    raised,              \* the exception that crossed an operation's interface, "none" if none
    clock,               \* logical time read by datetime.now()
    rng,                 \* state of the `random` module's generator
    uuid_counter,        \* how many identifiers uuid.uuid4() has handed out
    generated,           \* list returned by the last generate_entities call
    requested,           \* the count passed to the last generate_entities call
    issued_ids,          \* history: the id of every entity generate_entities ever returned
    inserted,            \* history: how many entities _update_digital_twins stored in the map
    current_time,        \* SimulationEngine.current_time, in ticks
    is_trained,          \* AnomalyDetector.is_trained
    fitted_on,           \* what AnomalyDetector.scaler and .model were fitted on
    anomalies,           \* list returned by the last detect_anomalies call
    was_trained,         \* history: is_trained when the last detect_anomalies call began
    detector_log,        \* history: the steps of the last train / detect_anomalies call, in order
    original_entity,     \* test_update_entity: the entity passed to update_entity
    updated_entity,      \* test_update_entity: the entity update_entity returned
    update_calls,        \* how many times the test called update_entity
    improvement_plan,    \* dict returned by the last generate_improvement_plan call
    config_data,         \* Config.config, the nested dict
    config_key,          \* the key of the last Config.set / Config.get call
    config_value,        \* the value of the last Config.set call, the default of the last get
    config_got,          \* value returned by the last Config.get
    config_raised,       \* the exception that left the last Config call, "none" if none
    config_ops,          \* how many Config calls were made
    running,             \* SimulationEngine.running
    engine_pc,           \* position of the thread inside SimulationEngine.run
    engine_idx,          \* index of the entity the simulation thread is storing / updating
    engine_new_entities, \* _update_digital_twins: the local list new_entities
    stage_log,           \* history: the stages of the current tick that have completed
    reports,             \* how many final reports were generated
    stop_pc,             \* position of the dashboard thread inside SimulationEngine.stop
    stopped_at,          \* history: where the simulation thread was when the dashboard set
                         \* running to False, inside a tick ("tick") or not ("between")
    reader_pc,           \* position of the dashboard thread inside _get_entities_data
    reader_idx,          \* how many entities the reader's dict iterator has yielded
    reader_len,          \* the size of the dict when the reader's iterator was created
    reader_torn,         \* history: the reader was handed an entity that was mid-update
    reader_raised,       \* the exception that left _get_entities_data, "none" if none
    engine_metrics,      \* SimulationEngine.metrics without the scores
    second_recommendations,   \* the list a second generate_recommendations returned
    ticks_done,               \* history: the ticks run() has completed
    configured_duration,      \* config.get('simulation.duration', 3600)
    configured_update_interval,  \* config.get('simulation.update_interval', 1)
    configured_max_entities,  \* config.get('simulation.max_entities', 1000)
    stage_input          \* history: the arguments of the last analysis-stage call (or the
                         \* entity of the last test_update_entity call), as they were when
                         \* the call began

generatorVars == <<rng, uuid_counter, generated, requested, issued_ids, inserted, current_time>>

detectorVars == <<is_trained, fitted_on, anomalies, was_trained, detector_log>>

testVars == <<original_entity, updated_entity, update_calls>>

planVars == <<improvement_plan, second_recommendations>>

limitVars == <<configured_max_entities, configured_duration, configured_update_interval>>

configVars == <<config_data, config_key, config_value, config_got, config_raised, config_ops>>

engineVars == <<running, engine_pc, engine_idx, engine_new_entities, stage_log, reports,
                stop_pc, stopped_at, reader_pc, reader_idx, reader_len, reader_torn,
                reader_raised, engine_metrics, ticks_done>>

vars == <<pc, entities, security_events, security_score, new_security_score,
          recommendations, applied_count, last_rec, success, attack_scenarios,
          raised, clock, generatorVars, detectorVars, testVars, planVars, limitVars, configVars, engineVars,
          stage_input>>

None == "None"

\* values of the driver's variables before the call that sets them
NoScore == [num |-> 0, den |-> 0]
NoRecommendation == [id |-> "none"]
NoEntity == [id |-> "none"]
NoConfig == [kind |-> "none"]
NoInput == [entities |-> <<>>, security_events |-> <<>>]
NoMetrics == [current_time |-> -1]
NoPlan == [created_at |-> 0]

\* _get_default_config: 'max_entities': 1000
max_entities == 1000

\* _get_default_config: 'duration': 3600, 'update_interval': 1
default_duration == 3600
default_update_interval == 1

\* a configured simulation.max_entities smaller than one batch of entities
SmallLimit == 5

-----------------------------------------------------------------------------
(* Bounds of the model *)

MaxEntities == 2      \* entities in a hand-built entity map
BurstLen == 11        \* length of a burst of identical events
FleetSize == 6        \* size of a fleet of same-typed entities

-----------------------------------------------------------------------------
(* Helpers over sequences and fractions *)

Range(s) == {s[i] : i \in 1..Len(s)}

RECURSIVE SumSeq(_)
SumSeq(s) == IF s = <<>> THEN 0 ELSE s[1] + SumSeq(Tail(s))

Min(a, b) == IF a <= b THEN a ELSE b
Max(a, b) == IF a >= b THEN a ELSE b

\* keep only the elements of s that satisfy Test (a list comprehension)
SelectWhere(s, Test(_)) == SelectSeq(s, Test)

\* number of elements of s that satisfy Test
CountWhere(s, Test(_)) == Len(SelectSeq(s, Test))

Frac(n, d) == [num |-> n, den |-> d]

\* Body applied to the value of x, x being evaluated once
With(x, Body(_)) == CHOOSE out \in {Body(v) : v \in {x}} : TRUE

-----------------------------------------------------------------------------
(* Entities: DigitalTwinGenerator._create_entity and _generate_security_config *)

EntityTypes == <<"medical_device", "patient_monitor", "hospital_server",
                 "network_device", "database">>

BoolControls == {"encryption_enabled", "authentication_required", "firewall_enabled",
                 "intrusion_detection", "audit_logging", "backup_enabled",
                 "vulnerability_scanning", "network_isolation"}

SecurityConfig(enc, auth, fw, ids, ac, audit, backup, patch, scan, iso) ==
    [encryption_enabled |-> enc, authentication_required |-> auth,
     firewall_enabled |-> fw, intrusion_detection |-> ids, access_control |-> ac,
     audit_logging |-> audit, backup_enabled |-> backup, patch_management |-> patch,
     vulnerability_scanning |-> scan, network_isolation |-> iso]

\* every control disabled
ConfigAllOff == SecurityConfig(FALSE, FALSE, FALSE, FALSE, "none", FALSE, FALSE, "none", FALSE, FALSE)
\* every control enabled
ConfigAllOn == SecurityConfig(TRUE, TRUE, TRUE, TRUE, "role_based", TRUE, TRUE, "automatic", TRUE, TRUE)
\* the three HIPAA controls only
ConfigHipaa == SecurityConfig(TRUE, TRUE, FALSE, FALSE, "attribute_based", TRUE, FALSE, "manual", FALSE, FALSE)
\* the network-side controls only
ConfigNetwork == SecurityConfig(FALSE, FALSE, TRUE, TRUE, "role_based", FALSE, TRUE, "automatic", TRUE, TRUE)

ConfigPool == {ConfigAllOff, ConfigAllOn, ConfigHipaa, ConfigNetwork}

Connection(enc, bw) == [encrypted |-> enc, bandwidth |-> bw]

Vulnerability(st) == [status |-> st]

\* an entity as _create_entity builds it (fields the analysis stages never read are left out)
Entity(id, type, crit, level, segment, config, vulns, conns) ==
    [id |-> id, type |-> type, name |-> id, criticality |-> crit,
     security_level |-> level, network_segment |-> segment,
     security_config |-> config, vulnerabilities |-> vulns,
     threat_indicators |-> <<>>,
     connectivity |-> [connections |-> conns,
                       total_bandwidth |-> SumSeq([i \in 1..Len(conns) |-> conns[i].bandwidth])],
     last_updated |-> 0]

-----------------------------------------------------------------------------
(* Exact arithmetic on fractions *)

RECURSIVE GCD(_, _)
GCD(a, b) == IF b = 0 THEN a ELSE GCD(b, a % b)

\* the same fraction in lowest terms
Reduce(f) ==
    LET g == GCD(IF f.num < 0 THEN -f.num ELSE f.num, f.den)
    IN  Frac(f.num \div g, f.den \div g)

\* a/b < c/d for a, c >= 0 and b, d > 0, by continued fractions (no products)
RECURSIVE RatioLess(_, _, _, _)
RatioLess(a, b, c, d) ==
    IF a \div b # c \div d THEN a \div b < c \div d
    ELSE IF c % d = 0 THEN FALSE
    ELSE IF a % b = 0 THEN TRUE
    ELSE RatioLess(d, c % d, b, a % b)

FracLT(a, b) ==
    IF a.num < 0
    THEN IF b.num < 0 THEN RatioLess(-b.num, b.den, -a.num, a.den) ELSE TRUE
    ELSE IF b.num < 0 THEN FALSE ELSE RatioLess(a.num, a.den, b.num, b.den)
FracLE(a, b) == ~FracLT(b, a)
FracEQ(a, b) == Reduce(a) = Reduce(b)

FracAdd(a, b) == Reduce(Frac(a.num * b.den + b.num * a.den, a.den * b.den))
FracSub(a, b) == Reduce(Frac(a.num * b.den - b.num * a.den, a.den * b.den))
\* the product in lowest terms, cancelling before multiplying
FracMul(a, b) ==
    LET x == Reduce(a)
        y == Reduce(b)
        g1 == GCD(IF x.num < 0 THEN -x.num ELSE x.num, y.den)
        g2 == GCD(IF y.num < 0 THEN -y.num ELSE y.num, x.den)
    IN  Frac((x.num \div g1) * (y.num \div g2), (x.den \div g2) * (y.den \div g1))
FracMin(a, b) == IF FracLE(a, b) THEN a ELSE b
FracMax(a, b) == IF FracLE(a, b) THEN b ELSE a
Int2Frac(n) == Frac(n, 1)

RECURSIVE FracSum(_)
FracSum(s) == IF s = <<>> THEN Int2Frac(0) ELSE FracAdd(s[1], FracSum(Tail(s)))

\* dict.get(key, default)
DictGet(d, key, default) == IF key \in DOMAIN d THEN d[key] ELSE default

\* entity.get('security_config', {}).get(control, False)
Enabled(e, control) == DictGet(e.security_config, control, FALSE)

\* entity.get('security_config', {}).get(control)
Setting(e, control) == DictGet(e.security_config, control, None)

-----------------------------------------------------------------------------
(* Security events: {'timestamp', 'type', 'data'} as SimulationEngine      *)
(* appends them.  age is (datetime.now() - event['timestamp']).days.       *)

Event(type, data, age) == [type |-> type, data |-> data, age |-> age]

-----------------------------------------------------------------------------
(* SecurityEvaluator *)

evaluation_criteria ==
    << [domain |-> "access_control", weight |-> Frac(25, 100), max_score |-> 100,
        metrics |-> <<"authentication_strength", "authorization_coverage", "privilege_management">>],
       [domain |-> "data_protection", weight |-> Frac(20, 100), max_score |-> 100,
        metrics |-> <<"encryption_coverage", "data_classification", "backup_security">>],
       [domain |-> "network_security", weight |-> Frac(20, 100), max_score |-> 100,
        metrics |-> <<"firewall_coverage", "network_segmentation", "intrusion_detection">>],
       [domain |-> "vulnerability_management", weight |-> Frac(15, 100), max_score |-> 100,
        metrics |-> <<"patch_management", "vulnerability_scanning", "penetration_testing">>],
       [domain |-> "incident_response", weight |-> Frac(10, 100), max_score |-> 100,
        metrics |-> <<"detection_capability", "response_time", "recovery_procedures">>],
       [domain |-> "compliance", weight |-> Frac(10, 100), max_score |-> 100,
        metrics |-> <<"regulatory_compliance", "audit_trail", "documentation">>] >>

\* (count / total_entities) * 100 if total_entities > 0 else 0
Coverage(ents, Test(_)) ==
    IF Len(ents) > 0 THEN Reduce(Frac(CountWhere(ents, Test) * 100, Len(ents)))
    ELSE Int2Frac(0)

_assess_authentication_strength(ents) ==
    Coverage(ents, LAMBDA e : Enabled(e, "authentication_required"))

_assess_authorization_coverage(ents) ==
    Coverage(ents, LAMBDA e : Setting(e, "access_control") = "role_based")

_assess_privilege_management(ents) ==
    Coverage(ents, LAMBDA e : /\ e.criticality = "high"
                              /\ Enabled(e, "authentication_required")
                              /\ Setting(e, "access_control") # "none")

_assess_encryption_coverage(ents) ==
    Coverage(ents, LAMBDA e : Enabled(e, "encryption_enabled"))

_assess_data_classification(ents) ==
    Coverage(ents, LAMBDA e : e.security_level \in {"high", "critical"})

_assess_backup_security(ents) ==
    Coverage(ents, LAMBDA e : Enabled(e, "backup_enabled"))

_assess_firewall_coverage(ents) ==
    Coverage(ents, LAMBDA e : Enabled(e, "firewall_enabled"))

_assess_network_segmentation(ents) ==
    Coverage(ents, LAMBDA e : e.network_segment # "default")

_assess_intrusion_detection(ents) ==
    Coverage(ents, LAMBDA e : Enabled(e, "intrusion_detection"))

_assess_patch_management(ents) ==
    Coverage(ents, LAMBDA e : Setting(e, "patch_management") = "automatic")

_assess_vulnerability_scanning(ents) ==
    Coverage(ents, LAMBDA e : Enabled(e, "vulnerability_scanning"))

_assess_penetration_testing(ents, events) ==
    LET recent_events == SelectWhere(events, LAMBDA ev : ev.age <= 30)
    IN  IF Len(recent_events) > 0
        THEN Int2Frac(Min(Len(recent_events) * 10, 100))
        ELSE Int2Frac(50)

_assess_detection_capability(ents, events) ==
    LET base_score == Coverage(ents, LAMBDA e : Enabled(e, "intrusion_detection"))
        recent_detections == CountWhere(events, LAMBDA ev : ev.type = "vulnerability")
        bonus == Min(recent_detections * 5, 20)
    IN  FracMin(FracAdd(base_score, Int2Frac(bonus)), Int2Frac(100))

_assess_response_time(events) ==
    IF Len(events) > 0 THEN Int2Frac(75) ELSE Int2Frac(50)

_assess_recovery_procedures(ents) ==
    Coverage(ents, LAMBDA e : /\ Enabled(e, "backup_enabled")
                              /\ Enabled(e, "audit_logging"))

_assess_regulatory_compliance(ents) ==
    Coverage(ents, LAMBDA e : /\ Enabled(e, "encryption_enabled")
                              /\ Enabled(e, "authentication_required")
                              /\ Enabled(e, "audit_logging"))

_assess_audit_trail(ents) ==
    Coverage(ents, LAMBDA e : Enabled(e, "audit_logging"))

_assess_documentation(ents) ==
    Coverage(ents, LAMBDA e : Cardinality(DOMAIN e.security_config) >= 8)

_evaluate_metric(domain, metric, ents, events) ==
    CASE metric = "authentication_strength" -> _assess_authentication_strength(ents)
      [] metric = "authorization_coverage" -> _assess_authorization_coverage(ents)
      [] metric = "privilege_management" -> _assess_privilege_management(ents)
      [] metric = "encryption_coverage" -> _assess_encryption_coverage(ents)
      [] metric = "data_classification" -> _assess_data_classification(ents)
      [] metric = "backup_security" -> _assess_backup_security(ents)
      [] metric = "firewall_coverage" -> _assess_firewall_coverage(ents)
      [] metric = "network_segmentation" -> _assess_network_segmentation(ents)
      [] metric = "intrusion_detection" -> _assess_intrusion_detection(ents)
      [] metric = "patch_management" -> _assess_patch_management(ents)
      [] metric = "vulnerability_scanning" -> _assess_vulnerability_scanning(ents)
      [] metric = "penetration_testing" -> _assess_penetration_testing(ents, events)
      [] metric = "detection_capability" -> _assess_detection_capability(ents, events)
      [] metric = "response_time" -> _assess_response_time(events)
      [] metric = "recovery_procedures" -> _assess_recovery_procedures(ents)
      [] metric = "regulatory_compliance" -> _assess_regulatory_compliance(ents)
      [] metric = "audit_trail" -> _assess_audit_trail(ents)
      [] metric = "documentation" -> _assess_documentation(ents)
      [] OTHER -> Int2Frac(0)

\* np.mean of the metric scores, capped at max_score
_evaluate_domain(criteria, ents, events) ==
    LET domain_scores == [i \in 1..Len(criteria.metrics) |->
                            _evaluate_metric(criteria.domain, criteria.metrics[i], ents, events)]
        domain_score == IF Len(domain_scores) > 0
                        THEN FracMul(FracSum(domain_scores), Frac(1, Len(domain_scores)))
                        ELSE Int2Frac(0)
    IN  FracMin(domain_score, Int2Frac(criteria.max_score))

\* evaluation_results: the domain scores, in the order of evaluation_criteria
_calculate_weighted_score(evaluation_results) ==
    LET weighted_sum == FracSum([i \in 1..Len(evaluation_results) |->
                                   FracMul(evaluation_results[i], evaluation_criteria[i].weight)])
        total_weight == FracSum([i \in 1..Len(evaluation_results) |-> evaluation_criteria[i].weight])
    IN  IF total_weight.num > 0
        THEN FracMul(weighted_sum, Frac(total_weight.den, total_weight.num))
        ELSE Int2Frac(0)

\* _apply_risk_adjustments returning adjusted_score without max(adjusted_score, 0)
_apply_risk_adjustments_unclamped(base_score, events) ==
    LET critical_vulns == SelectWhere(events, LAMBDA ev :
                              /\ ev.type = "vulnerability"
                              /\ DictGet(ev.data, "severity", None) = "critical"
                              /\ ev.age <= 7)
        high_vulns == SelectWhere(events, LAMBDA ev :
                              /\ ev.type = "vulnerability"
                              /\ DictGet(ev.data, "severity", None) = "high"
                              /\ ev.age <= 30)
    IN  FracSub(FracSub(base_score, Int2Frac(Len(critical_vulns) * 5)),
                Int2Frac(Len(high_vulns) * 2))

_apply_risk_adjustments(base_score, events) ==
    LET critical_vulns == SelectWhere(events, LAMBDA ev :
                              /\ ev.type = "vulnerability"
                              /\ DictGet(ev.data, "severity", None) = "critical"
                              /\ ev.age <= 7)
        high_vulns == SelectWhere(events, LAMBDA ev :
                              /\ ev.type = "vulnerability"
                              /\ DictGet(ev.data, "severity", None) = "high"
                              /\ ev.age <= 30)
        adjusted_score == FracSub(FracSub(base_score, Int2Frac(Len(critical_vulns) * 5)),
                                  Int2Frac(Len(high_vulns) * 2))
    IN  FracMax(adjusted_score, Int2Frac(0))

evaluate_security(ents, events) ==
    LET evaluation_results == [i \in 1..Len(evaluation_criteria) |->
                                 _evaluate_domain(evaluation_criteria[i], ents, events)]
        overall_score == _calculate_weighted_score(evaluation_results)
    IN  _apply_risk_adjustments(overall_score, events)

-----------------------------------------------------------------------------
(* ResilienceEnhancer *)

Template(title, priority, effort, impact) ==
    [title |-> title, priority |-> priority, effort |-> effort, impact |-> impact]

\* the keys of recommendation_templates, in dictionary order
RecTypes == <<"encryption", "authentication", "firewall", "patch_management",
              "vulnerability_scanning", "network_isolation", "audit_logging",
              "backup_security">>

recommendation_templates ==
    [encryption |-> Template("Enable Encryption", "high", "medium", "high"),
     authentication |-> Template("Implement Strong Authentication", "high", "medium", "high"),
     firewall |-> Template("Enable Firewall Protection", "medium", "low", "medium"),
     patch_management |-> Template("Implement Automated Patch Management", "high", "high", "high"),
     vulnerability_scanning |-> Template("Enable Vulnerability Scanning", "medium", "low", "medium"),
     network_isolation |-> Template("Implement Network Isolation", "high", "high", "high"),
     audit_logging |-> Template("Enable Audit Logging", "medium", "low", "medium"),
     backup_security |-> Template("Secure Backup Systems", "medium", "medium", "high")]

\* [x for x in s if Test(x)] is not empty ... appended when cond holds
AppendIf(s, cond, x) == IF cond THEN Append(s, x) ELSE s

_identify_security_gaps(ents) ==
    LET encryption_disabled == CountWhere(ents, LAMBDA e : ~Enabled(e, "encryption_enabled"))
        auth_disabled == CountWhere(ents, LAMBDA e : ~Enabled(e, "authentication_required"))
        firewall_disabled == CountWhere(ents, LAMBDA e : ~Enabled(e, "firewall_enabled"))
        patch_disabled == CountWhere(ents, LAMBDA e : Setting(e, "patch_management") = "none")
        total_entities == Len(ents)
        \* count / total_entities > 0.5
        OverHalf(count) == 2 * count > total_entities
    IN  IF total_entities > 0
        THEN AppendIf(AppendIf(AppendIf(AppendIf(<<>>,
                 OverHalf(encryption_disabled), "encryption_coverage"),
                 OverHalf(auth_disabled), "authentication_coverage"),
                 OverHalf(firewall_disabled), "firewall_coverage"),
                 OverHalf(patch_disabled), "patch_management")
        ELSE <<>>

_identify_risk_factors(ents, events) ==
    LET critical_entities == CountWhere(ents, LAMBDA e : e.criticality = "high")
        recent_events == SelectWhere(events, LAMBDA ev : ev.age <= 7)
        unencrypted_connections ==
            SumSeq([i \in 1..Len(ents) |->
                      CountWhere(ents[i].connectivity.connections, LAMBDA c : ~c.encrypted)])
    IN  AppendIf(AppendIf(AppendIf(<<>>,
            critical_entities > 0, "critical_systems_exposed"),
            Len(recent_events) > 5, "high_security_incidents"),
            unencrypted_connections > 0, "unencrypted_communications")

_identify_compliance_issues(ents) ==
    LET hipaa_compliant == CountWhere(ents, LAMBDA e :
                               /\ Enabled(e, "encryption_enabled")
                               /\ Enabled(e, "authentication_required")
                               /\ Enabled(e, "audit_logging"))
        total_entities == Len(ents)
    IN  \* hipaa_compliant / total_entities < 0.8
        AppendIf(<<>>, total_entities > 0 /\ 10 * hipaa_compliant < 8 * total_entities,
                 "hipaa_compliance")

_analyze_security_posture(ents, events) ==
    [total_entities |-> Len(ents),
     vulnerable_entities |-> CountWhere(ents, LAMBDA e : e.vulnerabilities # <<>>),
     critical_vulnerabilities |-> CountWhere(events, LAMBDA ev :
                                      /\ ev.type = "vulnerability"
                                      /\ DictGet(ev.data, "severity", None) = "critical"),
     security_gaps |-> _identify_security_gaps(ents),
     risk_factors |-> _identify_risk_factors(ents, events),
     compliance_issues |-> _identify_compliance_issues(ents)]

_create_recommendation(rec_type, entity, now) ==
    LET template == recommendation_templates[rec_type]
    IN  [id |-> <<rec_type, entity.id>>, type |-> rec_type, title |-> template.title,
         priority |-> template.priority, effort |-> template.effort,
         impact |-> template.impact, target_entity |-> entity.id,
         target_system |-> entity.name, status |-> "pending", created_at |-> now]

_create_system_recommendation(rec_type, now) ==
    LET template == recommendation_templates[rec_type]
    IN  [id |-> <<rec_type, "system_wide">>, type |-> rec_type, title |-> template.title,
         priority |-> template.priority,
         effort |-> IF template.effort = "high" THEN "high" ELSE "medium",
         impact |-> template.impact, target_entity |-> "system_wide",
         target_system |-> "all_systems", status |-> "pending", created_at |-> now]

\* _generate_entity_recommendations asking for network isolation whatever the criticality
_generate_entity_recommendations_any_criticality(entity, now) ==
    LET R(t) == _create_recommendation(t, entity, now)
    IN  AppendIf(AppendIf(AppendIf(AppendIf(AppendIf(AppendIf(AppendIf(AppendIf(<<>>,
            ~Enabled(entity, "encryption_enabled"), R("encryption")),
            ~Enabled(entity, "authentication_required"), R("authentication")),
            ~Enabled(entity, "firewall_enabled"), R("firewall")),
            Setting(entity, "patch_management") = "none", R("patch_management")),
            ~Enabled(entity, "vulnerability_scanning"), R("vulnerability_scanning")),
            ~Enabled(entity, "network_isolation"), R("network_isolation")),
            ~Enabled(entity, "audit_logging"), R("audit_logging")),
            ~Enabled(entity, "backup_enabled"), R("backup_security"))

_generate_entity_recommendations(entity, now) ==
    LET R(t) == _create_recommendation(t, entity, now)
    IN  AppendIf(AppendIf(AppendIf(AppendIf(AppendIf(AppendIf(AppendIf(AppendIf(<<>>,
            ~Enabled(entity, "encryption_enabled"), R("encryption")),
            ~Enabled(entity, "authentication_required"), R("authentication")),
            ~Enabled(entity, "firewall_enabled"), R("firewall")),
            Setting(entity, "patch_management") = "none", R("patch_management")),
            ~Enabled(entity, "vulnerability_scanning"), R("vulnerability_scanning")),
            entity.criticality = "high" /\ ~Enabled(entity, "network_isolation"), R("network_isolation")),
            ~Enabled(entity, "audit_logging"), R("audit_logging")),
            ~Enabled(entity, "backup_enabled"), R("backup_security"))

RECURSIVE Flatten(_)
Flatten(ss) == IF ss = <<>> THEN <<>> ELSE ss[1] \o Flatten(Tail(ss))

_generate_system_recommendations(security_analysis, now) ==
    LET S(t) == _create_system_recommendation(t, now)
        gaps == security_analysis.security_gaps
        risks == security_analysis.risk_factors
        issues == security_analysis.compliance_issues
        ForGap(gap) ==
            CASE gap = "encryption_coverage" -> <<S("encryption")>>
              [] gap = "authentication_coverage" -> <<S("authentication")>>
              [] gap = "firewall_coverage" -> <<S("firewall")>>
              [] gap = "patch_management" -> <<S("patch_management")>>
              [] OTHER -> <<>>
        ForRisk(risk_factor) ==
            CASE risk_factor = "critical_systems_exposed" -> <<S("network_isolation")>>
              [] risk_factor = "unencrypted_communications" -> <<S("encryption")>>
              [] OTHER -> <<>>
        ForIssue(compliance_issue) ==
            CASE compliance_issue = "hipaa_compliance" ->
                     <<S("encryption"), S("authentication"), S("audit_logging")>>
              [] OTHER -> <<>>
    IN  Flatten([i \in 1..Len(gaps) |-> ForGap(gaps[i])])
        \o Flatten([i \in 1..Len(risks) |-> ForRisk(risks[i])])
        \o Flatten([i \in 1..Len(issues) |-> ForIssue(issues[i])])

priority_scores == [low |-> 1, medium |-> 2, high |-> 3, critical |-> 4]
effort_scores == [low |-> 3, medium |-> 2, high |-> 1]
impact_scores == [low |-> 1, medium |-> 2, high |-> 3]

PriorityScore(rec) ==
    DictGet(priority_scores, rec.priority, 1) * DictGet(impact_scores, rec.impact, 2)
        * DictGet(effort_scores, rec.effort, 2)

\* a sort that puts a recommendation before the earlier ones of equal score
RECURSIVE InsertByPriority_unstable(_, _)
InsertByPriority_unstable(sorted, x) ==
    IF sorted = <<>> THEN <<x>>
    ELSE IF sorted[1].priority_score > x.priority_score
         THEN <<sorted[1]>> \o InsertByPriority_unstable(Tail(sorted), x)
         ELSE <<x>> \o sorted

\* recommendations.sort(key=lambda x: x['priority_score'], reverse=True):
\* the sort is stable, recommendations with equal keys keep their order
RECURSIVE InsertByPriority(_, _)
InsertByPriority(sorted, x) ==
    IF sorted = <<>> THEN <<x>>
    ELSE IF sorted[1].priority_score >= x.priority_score
         THEN <<sorted[1]>> \o InsertByPriority(Tail(sorted), x)
         ELSE <<x>> \o sorted

RECURSIVE SortByPriority(_)
SortByPriority(s) ==
    IF s = <<>> THEN <<>>
    ELSE InsertByPriority(SortByPriority(SubSeq(s, 1, Len(s) - 1)), s[Len(s)])

_prioritize_recommendations(recs) ==
    LET scored == [i \in 1..Len(recs) |->
                     [k \in DOMAIN recs[i] \cup {"priority_score"} |->
                        IF k = "priority_score" THEN PriorityScore(recs[i]) ELSE recs[i][k]]]
    IN  SortByPriority(scored)

generate_recommendations(ents, events, now) ==
    LET security_analysis == _analyze_security_posture(ents, events)
        entity_recommendations ==
            Flatten([i \in 1..Len(ents) |-> _generate_entity_recommendations(ents[i], now)])
        system_recommendations == _generate_system_recommendations(security_analysis, now)
    IN  _prioritize_recommendations(entity_recommendations \o system_recommendations)

\* TypeToField with the backup template's own name as its key
TypeToField_backup_key ==
    [encryption |-> <<"encryption_enabled", TRUE>>,
     authentication |-> <<"authentication_required", TRUE>>,
     firewall |-> <<"firewall_enabled", TRUE>>,
     patch_management |-> <<"patch_management", "automatic">>,
     vulnerability_scanning |-> <<"vulnerability_scanning", TRUE>>,
     network_isolation |-> <<"network_isolation", TRUE>>,
     audit_logging |-> <<"audit_logging", TRUE>>,
     backup_security |-> <<"backup_security", TRUE>>]

\* the security_config key a recommendation type sets, and the value it sets
TypeToField ==
    [encryption |-> <<"encryption_enabled", TRUE>>,
     authentication |-> <<"authentication_required", TRUE>>,
     firewall |-> <<"firewall_enabled", TRUE>>,
     patch_management |-> <<"patch_management", "automatic">>,
     vulnerability_scanning |-> <<"vulnerability_scanning", TRUE>>,
     network_isolation |-> <<"network_isolation", TRUE>>,
     audit_logging |-> <<"audit_logging", TRUE>>,
     backup_security |-> <<"backup_enabled", TRUE>>]

\* dict with d[key] = value
DictSet(d, key, value) == [k \in DOMAIN d \cup {key} |-> IF k = key THEN value ELSE d[k]]

\* _apply_to_entity writing False where it should write True
_apply_to_entity_disabling(recommendation, entity, now) ==
    LET rec_type == recommendation.type
        security_config ==
            IF rec_type \in DOMAIN TypeToField
            THEN DictSet(entity.security_config, TypeToField[rec_type][1],
                         IF rec_type = "patch_management" THEN "none" ELSE FALSE)
            ELSE entity.security_config
    IN  [entity EXCEPT !.security_config = security_config, !.last_updated = now]

\* _apply_to_entity closing the entity's vulnerabilities along with the control
_apply_to_entity_clearing(recommendation, entity, now) ==
    LET rec_type == recommendation.type
        security_config ==
            IF rec_type \in DOMAIN TypeToField
            THEN DictSet(entity.security_config, TypeToField[rec_type][1], TypeToField[rec_type][2])
            ELSE entity.security_config
    IN  [entity EXCEPT !.security_config = security_config, !.last_updated = now,
                       !.vulnerabilities = <<>>]

\* needs recommendation['type']; a missing key raises KeyError in the caller's try
_apply_to_entity(recommendation, entity, now) ==
    LET rec_type == recommendation.type
        security_config ==
            IF rec_type \in DOMAIN TypeToField
            THEN DictSet(entity.security_config, TypeToField[rec_type][1], TypeToField[rec_type][2])
            ELSE entity.security_config
    IN  [entity EXCEPT !.security_config = security_config, !.last_updated = now]

EntityIndex(ents, id) == {i \in 1..Len(ents) : ents[i].id = id}

\* the exception raised inside the try block of apply_recommendation, None if none
ApplyFailure(recommendation, ents) ==
    IF "target_entity" \notin DOMAIN recommendation THEN "'target_entity'"
    ELSE LET reached == IF recommendation.target_entity = "system_wide"
                        THEN Len(ents) > 0
                        ELSE EntityIndex(ents, recommendation.target_entity) # {}
         IN  IF reached /\ "type" \notin DOMAIN recommendation THEN "'type'" ELSE None

\* apply_recommendation without its try/except: the KeyError leaves the call
apply_recommendation_uncaught(recommendation, ents, now) ==
    LET failure == ApplyFailure(recommendation, ents)
    IN  IF failure = None
        THEN [success |-> TRUE,
              recommendation |-> DictSet(DictSet(recommendation, "status", "applied"),
                                         "applied_at", now),
              entities |-> [i \in 1..Len(ents) |->
                              IF \/ recommendation.target_entity = "system_wide"
                                 \/ ents[i].id = recommendation.target_entity
                              THEN _apply_to_entity(recommendation, ents[i], now)
                              ELSE ents[i]],
              raised |-> "none"]
        ELSE [success |-> FALSE, recommendation |-> recommendation, entities |-> ents,
              raised |-> "KeyError"]

\* result of the call: the value returned, the recommendation and the entity
\* map as the call leaves them, and the exception that left the call
apply_recommendation(recommendation, ents, now) ==
    LET failure == ApplyFailure(recommendation, ents)
    IN  IF failure = None
        THEN [success |-> TRUE,
              recommendation |-> DictSet(DictSet(recommendation, "status", "applied"),
                                         "applied_at", now),
              entities |-> [i \in 1..Len(ents) |->
                              IF \/ recommendation.target_entity = "system_wide"
                                 \/ ents[i].id = recommendation.target_entity
                              THEN _apply_to_entity(recommendation, ents[i], now)
                              ELSE ents[i]],
              raised |-> "none"]
        ELSE [success |-> FALSE,
              recommendation |-> DictSet(DictSet(recommendation, "status", "failed"),
                                         "error", failure),
              entities |-> ents,
              raised |-> "none"]

\* the values of improvement_strategies, each with its key
improvement_strategies ==
    [defense_in_depth |-> [name |-> "defense_in_depth", priority |-> "high"],
     zero_trust |-> [name |-> "zero_trust", priority |-> "high"],
     threat_hunting |-> [name |-> "threat_hunting", priority |-> "medium"],
     security_automation |-> [name |-> "security_automation", priority |-> "medium"]]

\* _select_improvement_strategies falling back on security_automation
_select_improvement_strategies_never_empty(recs) ==
    LET rec_types == {recs[i].type : i \in 1..Len(recs)}
        selected == AppendIf(AppendIf(AppendIf(<<>>,
                        "encryption" \in rec_types /\ "authentication" \in rec_types,
                            improvement_strategies.zero_trust),
                        "network_isolation" \in rec_types, improvement_strategies.defense_in_depth),
                        "vulnerability_scanning" \in rec_types, improvement_strategies.threat_hunting)
    IN  IF selected = <<>> THEN <<improvement_strategies.security_automation>> ELSE selected

_select_improvement_strategies(recs) ==
    LET rec_types == {recs[i].type : i \in 1..Len(recs)}
    IN  AppendIf(AppendIf(AppendIf(<<>>,
            "encryption" \in rec_types /\ "authentication" \in rec_types,
                improvement_strategies.zero_trust),
            "network_isolation" \in rec_types, improvement_strategies.defense_in_depth),
            "vulnerability_scanning" \in rec_types, improvement_strategies.threat_hunting)

\* the recommendations of priority high, then medium, then low, each with its phase
_generate_timeline(recs) ==
    LET Phase(priority, phase, duration) ==
            LET chosen == SelectWhere(recs, LAMBDA r : r.priority = priority)
            IN  [i \in 1..Len(chosen) |->
                    [recommendation_id |-> chosen[i].id, phase |-> phase,
                     estimated_duration |-> duration]]
    IN  Phase("high", "immediate", "1-2 weeks")
        \o Phase("medium", "short_term", "2-4 weeks")
        \o Phase("low", "long_term", "1-3 months")

_calculate_expected_improvements(recs) ==
    LET high == Len(SelectWhere(recs, LAMBDA r : r.impact = "high"))
        medium == Len(SelectWhere(recs, LAMBDA r : r.impact = "medium"))
    IN  [security_score_increase |-> Min(10 * high + 5 * medium, 50),
         vulnerability_reduction |-> Min(2 * high + medium, 20),
         compliance_improvement |-> 0,
         risk_reduction |-> 0]

\* metrics is the empty dict: metrics.get('security_score', 0) is 0
generate_improvement_plan(ents, events, now) ==
    With(generate_recommendations(ents, events, now), LAMBDA recs :
         [current_state |->
              [security_score |-> 0,
               vulnerability_count |-> Len(SelectWhere(events, LAMBDA e : e.type = "vulnerability")),
               entity_count |-> Len(ents)],
          recommendations |-> recs,
          strategies |-> _select_improvement_strategies(recs),
          timeline |-> _generate_timeline(recs),
          expected_improvements |-> _calculate_expected_improvements(recs),
          created_at |-> now])

-----------------------------------------------------------------------------
(* AttackPredictor *)

\* the characters of the strings that the code searches with `in`
Chars ==
    [medical_device |-> <<"m", "e", "d", "i", "c", "a", "l", "_", "d", "e", "v", "i", "c", "e">>,
     patient_monitor |-> <<"p", "a", "t", "i", "e", "n", "t", "_", "m", "o", "n", "i", "t", "o", "r">>,
     hospital_server |-> <<"h", "o", "s", "p", "i", "t", "a", "l", "_", "s", "e", "r", "v", "e", "r">>,
     network_device |-> <<"n", "e", "t", "w", "o", "r", "k", "_", "d", "e", "v", "i", "c", "e">>,
     database |-> <<"d", "a", "t", "a", "b", "a", "s", "e">>,
     patient_monitors_icu |-> <<"p", "a", "t", "i", "e", "n", "t", "_", "m", "o", "n", "i", "t", "o", "r", "s", "_", "i", "c", "u">>,
     medical_devices_pump |-> <<"m", "e", "d", "i", "c", "a", "l", "_", "d", "e", "v", "i", "c", "e", "s", "_", "p", "u", "m", "p">>,
     patient_data |-> <<"p", "a", "t", "i", "e", "n", "t", "_", "d", "a", "t", "a">>,
     medical_devices |-> <<"m", "e", "d", "i", "c", "a", "l", "_", "d", "e", "v", "i", "c", "e", "s">>,
     hospital_systems |-> <<"h", "o", "s", "p", "i", "t", "a", "l", "_", "s", "y", "s", "t", "e", "m", "s">>,
     patient_records |-> <<"p", "a", "t", "i", "e", "n", "t", "_", "r", "e", "c", "o", "r", "d", "s">>,
     financial_data |-> <<"f", "i", "n", "a", "n", "c", "i", "a", "l", "_", "d", "a", "t", "a">>,
     research_data |-> <<"r", "e", "s", "e", "a", "r", "c", "h", "_", "d", "a", "t", "a">>,
     web_services |-> <<"w", "e", "b", "_", "s", "e", "r", "v", "i", "c", "e", "s">>,
     network_infrastructure |-> <<"n", "e", "t", "w", "o", "r", "k", "_", "i", "n", "f", "r", "a", "s", "t", "r", "u", "c", "t", "u", "r", "e">>,
     sensitive_data |-> <<"s", "e", "n", "s", "i", "t", "i", "v", "e", "_", "d", "a", "t", "a">>,
     system_access |-> <<"s", "y", "s", "t", "e", "m", "_", "a", "c", "c", "e", "s", "s">>,
     financial_systems |-> <<"f", "i", "n", "a", "n", "c", "i", "a", "l", "_", "s", "y", "s", "t", "e", "m", "s">>,
     intellectual_property |-> <<"i", "n", "t", "e", "l", "l", "e", "c", "t", "u", "a", "l", "_", "p", "r", "o", "p", "e", "r", "t", "y">>,
     critical_infrastructure |-> <<"c", "r", "i", "t", "i", "c", "a", "l", "_", "i", "n", "f", "r", "a", "s", "t", "r", "u", "c", "t", "u", "r", "e">>,
     patient_monitors |-> <<"p", "a", "t", "i", "e", "n", "t", "_", "m", "o", "n", "i", "t", "o", "r", "s">>,
     life_support_systems |-> <<"l", "i", "f", "e", "_", "s", "u", "p", "p", "o", "r", "t", "_", "s", "y", "s", "t", "e", "m", "s">>,
     diagnostic_equipment |-> <<"d", "i", "a", "g", "n", "o", "s", "t", "i", "c", "_", "e", "q", "u", "i", "p", "m", "e", "n", "t">>,
     cpu_usage |-> <<"c", "p", "u", "_", "u", "s", "a", "g", "e">>,
     memory_usage |-> <<"m", "e", "m", "o", "r", "y", "_", "u", "s", "a", "g", "e">>,
     network_usage |-> <<"n", "e", "t", "w", "o", "r", "k", "_", "u", "s", "a", "g", "e">>,
     disk_usage |-> <<"d", "i", "s", "k", "_", "u", "s", "a", "g", "e">>,
     response_time |-> <<"r", "e", "s", "p", "o", "n", "s", "e", "_", "t", "i", "m", "e">>,
     uptime |-> <<"u", "p", "t", "i", "m", "e">>,
     error_rate |-> <<"e", "r", "r", "o", "r", "_", "r", "a", "t", "e">>,
     usage |-> <<"u", "s", "a", "g", "e">>,
     rate |-> <<"r", "a", "t", "e">>,
     time |-> <<"t", "i", "m", "e">>]

\* Python's `a in b` on strings: a occurs in b as a contiguous substring
IsSubstring(a, b) ==
    \E i \in 0..(Len(Chars[b]) - Len(Chars[a])) :
        SubSeq(Chars[b], i + 1, i + Len(Chars[a])) = Chars[a]

AttackType(name, base, severity, targets) ==
    [name |-> name, probability_base |-> base, severity |-> severity, targets |-> targets]

\* attack_types, in dictionary order
attack_types ==
    << AttackType("ransomware", Frac(15, 100), "critical",
                  <<"patient_data", "medical_devices", "hospital_systems">>),
       AttackType("data_breach", Frac(25, 100), "high",
                  <<"patient_records", "financial_data", "research_data">>),
       AttackType("denial_of_service", Frac(20, 100), "medium",
                  <<"web_services", "network_infrastructure", "medical_devices">>),
       AttackType("insider_threat", Frac(10, 100), "high",
                  <<"sensitive_data", "system_access", "financial_systems">>),
       AttackType("advanced_persistent_threat", Frac(5, 100), "critical",
                  <<"intellectual_property", "research_data", "critical_infrastructure">>),
       AttackType("medical_device_hijacking", Frac(12, 100), "critical",
                  <<"patient_monitors", "life_support_systems", "diagnostic_equipment">>) >>

ThreatActor(name, capability, prefs) ==
    [name |-> name, capability |-> capability, target_preference |-> prefs]

\* threat_actors, in dictionary order
threat_actors ==
    << ThreatActor("cybercriminals", "medium", <<"financial_data", "patient_records">>),
       ThreatActor("nation_state", "high",
                   <<"research_data", "intellectual_property", "critical_infrastructure">>),
       ThreatActor("hacktivists", "medium", <<"public_systems", "administrative_data">>),
       ThreatActor("insiders", "high", <<"sensitive_data", "financial_systems">>),
       ThreatActor("medical_device_hackers", "high", <<"medical_devices", "patient_monitors">>) >>

_calculate_vulnerability_density(ents) ==
    LET total_vulnerabilities == SumSeq([i \in 1..Len(ents) |-> Len(ents[i].vulnerabilities)])
    IN  Reduce(Frac(total_vulnerabilities, Max(Len(ents), 1)))

severity_weights == [low |-> 1, medium |-> 2, high |-> 3, critical |-> 4]

\* the vulnerability events of the trailing 7 days
RecentVulnerabilityEvents(events) ==
    SelectWhere(events, LAMBDA ev : ev.age <= 7 /\ ev.type = "vulnerability")

\* severity_weights[severity] raises KeyError for a severity that is no key of the table
ThreatActivityRaises(events) ==
    \E ev \in Range(RecentVulnerabilityEvents(events)) :
        DictGet(ev.data, "severity", "medium") \notin DOMAIN severity_weights

_calculate_threat_activity(events) ==
    LET recent == RecentVulnerabilityEvents(events)
        activity_score == SumSeq([i \in 1..Len(recent) |->
                                    severity_weights[DictGet(recent[i].data, "severity", "medium")]])
    IN  FracMin(Reduce(Frac(activity_score, 10)), Int2Frac(1))

_calculate_attack_surface(ents) ==
    [total_entities |-> Len(ents),
     network_segments |-> Cardinality({ents[i].network_segment : i \in 1..Len(ents)}),
     unencrypted_connections |->
         SumSeq([i \in 1..Len(ents) |->
                   CountWhere(ents[i].connectivity.connections, LAMBDA c : ~c.encrypted)]),
     critical_systems |-> CountWhere(ents, LAMBDA e : e.criticality = "high")]

_assess_security_posture(ents) ==
    LET total_entities == Len(ents)
        Share(Test(_)) == IF total_entities = 0 THEN Int2Frac(0)
                          ELSE Reduce(Frac(CountWhere(ents, Test), total_entities))
    IN  [encryption_coverage |-> Share(LAMBDA e : Enabled(e, "encryption_enabled")),
         authentication_coverage |-> Share(LAMBDA e : Enabled(e, "authentication_required")),
         firewall_coverage |-> Share(LAMBDA e : Enabled(e, "firewall_enabled")),
         patch_management_coverage |-> Share(LAMBDA e : Setting(e, "patch_management") # "none")]

_analyze_threat_landscape(ents, events) ==
    [vulnerability_density |-> _calculate_vulnerability_density(ents),
     threat_activity_level |-> _calculate_threat_activity(events),
     attack_surface |-> _calculate_attack_surface(ents),
     security_posture |-> _assess_security_posture(ents)]

\* _adjust_probability returning adjusted without min(adjusted, 1.0)
_adjust_probability_uncapped(base_probability, threat_landscape) ==
    LET a1 == FracMul(base_probability,
                      FracAdd(Int2Frac(1), FracMul(threat_landscape.vulnerability_density, Frac(5, 10))))
        a2 == FracMul(a1, FracAdd(Int2Frac(1),
                                  FracMul(threat_landscape.threat_activity_level, Frac(3, 10))))
        a3 == IF threat_landscape.attack_surface.unencrypted_connections > 0
              THEN FracMul(a2, Frac(12, 10)) ELSE a2
        a4 == IF FracLT(threat_landscape.security_posture.encryption_coverage, Frac(5, 10))
              THEN FracMul(a3, Frac(13, 10)) ELSE a3
    IN  IF FracLT(threat_landscape.security_posture.authentication_coverage, Frac(5, 10))
        THEN FracMul(a4, Frac(14, 10)) ELSE a4

_adjust_probability(base_probability, threat_landscape) ==
    LET a1 == FracMul(base_probability,
                      FracAdd(Int2Frac(1), FracMul(threat_landscape.vulnerability_density, Frac(5, 10))))
        a2 == FracMul(a1, FracAdd(Int2Frac(1),
                                  FracMul(threat_landscape.threat_activity_level, Frac(3, 10))))
        a3 == IF threat_landscape.attack_surface.unencrypted_connections > 0
              THEN FracMul(a2, Frac(12, 10)) ELSE a2
        a4 == IF FracLT(threat_landscape.security_posture.encryption_coverage, Frac(5, 10))
              THEN FracMul(a3, Frac(13, 10)) ELSE a3
        a5 == IF FracLT(threat_landscape.security_posture.authentication_coverage, Frac(5, 10))
              THEN FracMul(a4, Frac(14, 10)) ELSE a4
    IN  FracMin(a5, Int2Frac(1))

\* any(target in attack_targets for target in target_preferences): list membership
_is_compatible_target(attack_info, actor_info) ==
    \E target \in Range(actor_info.target_preference) : target \in Range(attack_info.targets)

\* the membership test the other way round: the entity type inside the tag
_select_target_entities_type_in_tag(attack_info, ents) ==
    LET matching == SelectWhere(ents, LAMBDA e :
                        \E target \in Range(attack_info.targets) : IsSubstring(e.type, target))
        targets == [i \in 1..Len(matching) |-> matching[i].id]
    IN  SubSeq(targets, 1, Min(Len(targets), 5))

_select_target_entities(attack_info, ents) ==
    LET matching == SelectWhere(ents, LAMBDA e :
                        \E target \in Range(attack_info.targets) : IsSubstring(target, e.type))
        targets == [i \in 1..Len(matching) |-> matching[i].id]
    IN  SubSeq(targets, 1, Min(Len(targets), 5))

_generate_attack_path(attack_type, target_entities) ==
    <<"reconnaissance">>
    \o (CASE attack_type = "ransomware" -> <<"phishing", "malware_delivery", "execution">>
          [] attack_type = "data_breach" ->
                 <<"initial_access", "privilege_escalation", "data_exfiltration">>
          [] attack_type = "denial_of_service" -> <<"traffic_generation", "resource_exhaustion">>
          [] attack_type = "medical_device_hijacking" ->
                 <<"device_discovery", "vulnerability_exploitation", "device_control">>
          [] OTHER -> <<>>)
    \o <<"target_compromise">> \o target_entities

base_impact == [low |-> Frac(3, 10), medium |-> Frac(6, 10), high |-> Frac(8, 10),
                critical |-> Frac(10, 10)]
capability_multiplier == [low |-> Frac(8, 10), medium |-> Frac(10, 10), high |-> Frac(13, 10)]

_calculate_impact_score(attack_info, target_entities, actor_info) ==
    LET i1 == FracMul(base_impact[attack_info.severity], capability_multiplier[actor_info.capability])
        i2 == FracMul(i1, FracMin(Frac(Len(target_entities), 5), Int2Frac(1)))
    IN  FracMin(i2, Int2Frac(1))

_assess_detection_difficulty(attack_type, actor_info) ==
    IF actor_info.capability = "high" THEN "difficult"
    ELSE IF attack_type \in {"advanced_persistent_threat", "insider_threat"} THEN "difficult"
    ELSE "moderate"

_assess_mitigation_effort(attack_type) ==
    IF attack_type \in {"advanced_persistent_threat", "medical_device_hijacking"} THEN "high"
    ELSE IF attack_type \in {"ransomware", "data_breach"} THEN "medium"
    ELSE "low"

_create_attack_scenario(attack_info, actor_info, ents, probability, now) ==
    LET target_entities == _select_target_entities(attack_info, ents)
    IN  [id |-> <<attack_info.name, actor_info.name, Len(target_entities)>>,
         type |-> attack_info.name,
         threat_actor |-> actor_info.name,
         probability |-> probability,
         severity |-> attack_info.severity,
         targets |-> target_entities,
         attack_path |-> _generate_attack_path(attack_info.name, target_entities),
         impact_score |-> _calculate_impact_score(attack_info, target_entities, actor_info),
         detection_difficulty |-> _assess_detection_difficulty(attack_info.name, actor_info),
         mitigation_effort |-> _assess_mitigation_effort(attack_info.name),
         timestamp |-> now]

_generate_attack_scenarios(attack_info, ents, threat_landscape, now) ==
    LET adjusted_probability == _adjust_probability(attack_info.probability_base, threat_landscape)
        compatible == SelectWhere(threat_actors, LAMBDA actor : _is_compatible_target(attack_info, actor))
    IN  [i \in 1..Len(compatible) |->
           _create_attack_scenario(attack_info, compatible[i], ents, adjusted_probability, now)]

RiskScore(scenario) == FracMul(scenario.probability, scenario.impact_score)

\* a sort that puts a scenario before the earlier ones of equal risk
RECURSIVE InsertByRisk_unstable(_, _)
InsertByRisk_unstable(sorted, x) ==
    IF sorted = <<>> THEN <<x>>
    ELSE IF FracLT(x.risk_score, sorted[1].risk_score)
         THEN <<sorted[1]>> \o InsertByRisk_unstable(Tail(sorted), x)
         ELSE <<x>> \o sorted

\* scenarios.sort(key=lambda x: x['risk_score'], reverse=True): stable
RECURSIVE InsertByRisk(_, _)
InsertByRisk(sorted, x) ==
    IF sorted = <<>> THEN <<x>>
    ELSE IF FracLE(x.risk_score, sorted[1].risk_score)
         THEN <<sorted[1]>> \o InsertByRisk(Tail(sorted), x)
         ELSE <<x>> \o sorted

RECURSIVE SortByRisk(_)
SortByRisk(s) ==
    IF s = <<>> THEN <<>>
    ELSE InsertByRisk(SortByRisk(SubSeq(s, 1, Len(s) - 1)), s[Len(s)])

_rank_scenarios(scenarios) ==
    LET scored == [i \in 1..Len(scenarios) |->
                     [k \in DOMAIN scenarios[i] \cup {"risk_score"} |->
                        IF k = "risk_score" THEN RiskScore(scenarios[i]) ELSE scenarios[i][k]]]
    IN  SortByRisk(scored)

\* result of the call: the list returned, or the exception that left the call
predict_attacks(ents, events, now) ==
    IF ThreatActivityRaises(events)
    THEN [value |-> <<>>, raised |-> "KeyError"]
    ELSE LET threat_landscape == _analyze_threat_landscape(ents, events)
             scenarios == Flatten([i \in 1..Len(attack_types) |->
                              _generate_attack_scenarios(attack_types[i], ents, threat_landscape, now)])
         IN  [value |-> _rank_scenarios(scenarios), raised |-> "none"]

-----------------------------------------------------------------------------
(* Inputs: the entity maps and event lists the operations are called with *)

EntityIds == <<"e1", "e2", "e3", "e4", "e5", "e6", "e7", "e8">>

\* the entity shapes of hand-built maps: a configuration and a criticality,
\* the other fields following the configuration
ShapeOf(config, crit) ==
    CASE config = ConfigAllOff ->
            [type |-> IF crit = "high" THEN "patient_monitors_icu" ELSE "medical_device",
             level |-> "low", segment |-> "default",
             vulns |-> <<Vulnerability("open"), Vulnerability("mitigated")>>,
             conns |-> <<Connection(FALSE, 10)>>]
      [] config = ConfigAllOn ->
            [type |-> IF crit = "high" THEN "hospital_server" ELSE "network_device",
             level |-> "critical", segment |-> "patient_care_network",
             vulns |-> <<>>,
             conns |-> <<Connection(TRUE, 10)>>]
      [] config = ConfigHipaa ->
            [type |-> IF crit = "high" THEN "database" ELSE "patient_monitor",
             level |-> "high", segment |-> "research_network",
             vulns |-> <<Vulnerability("open")>>,
             conns |-> <<Connection(TRUE, 10), Connection(FALSE, 20)>>]
      [] OTHER ->
            [type |-> IF crit = "high" THEN "medical_devices_pump" ELSE "hospital_server",
             level |-> "medium", segment |-> "isolation_network",
             vulns |-> <<>>,
             conns |-> <<Connection(TRUE, 5)>>]

EntityShapes == {[config |-> c, crit |-> k] : c \in ConfigPool, k \in {"high", "medium"}}

MakeEntity(id, shape) ==
    LET rest == ShapeOf(shape.config, shape.crit)
    IN  Entity(id, rest.type, shape.crit, rest.level, rest.segment, shape.config,
               rest.vulns, rest.conns)

\* hand-built maps of up to MaxEntities entities, ids in insertion order
SmallPopulations ==
    UNION {{[i \in 1..n |-> MakeEntity(EntityIds[i], f[i])] : f \in [1..n -> EntityShapes]}
           : n \in 0..MaxEntities}

\* fleets: k entities of one shape
FleetShapes == {[config |-> ConfigAllOff, crit |-> "high"],
                [config |-> ConfigNetwork, crit |-> "high"]}

Fleets == {[i \in 1..k |-> MakeEntity(EntityIds[i], sh)] : k \in 3..FleetSize, sh \in FleetShapes}

Populations == SmallPopulations \cup Fleets

EventPool ==
    {Event("vulnerability", [severity |-> "critical", affected_system |-> "e1"], 0),
     Event("vulnerability", [severity |-> "high", affected_system |-> "e1"], 10),
     Event("vulnerability", [severity |-> "low", affected_system |-> "e1"], 40),
     Event("vulnerability", [severity |-> "info", affected_system |-> "e1"], 0),
     Event("vulnerability", [affected_system |-> "e1"], 0),
     Event("attack", [severity |-> "high", affected_system |-> "e1"], 0)}

\* the same event n times, as a scan that reports one finding per entity does
Burst(ev, n) == [i \in 1..n |-> ev]

\* the empty list, one event, a burst of one event, and one list with a
\* critical, a high and an attack event together
EventLists ==
    {<<>>}
    \cup {<<ev>> : ev \in EventPool}
    \cup {Burst(ev, BurstLen) : ev \in EventPool}
    \cup {<<Event("vulnerability", [severity |-> "critical", affected_system |-> "e1"], 0),
            Event("vulnerability", [severity |-> "high", affected_system |-> "e1"], 10),
            Event("attack", [severity |-> "high", affected_system |-> "e1"], 0)>>}

\* recommendation records built by hand, as test_apply_recommendation builds one
TestTargets(ents) ==
    {"system_wide", "no_such_entity"} \cup (IF Len(ents) > 0 THEN {ents[1].id} ELSE {})

TestRecommendations(ents) ==
    {[id |-> "test_rec", type |-> t, target_entity |-> tgt] :
        t \in Range(RecTypes) \cup {"unknown_type"}, tgt \in TestTargets(ents)}
    \cup {[id |-> "test_rec", target_entity |-> tgt] : tgt \in TestTargets(ents)}
    \cup {[id |-> "test_rec", type |-> "encryption"]}

-----------------------------------------------------------------------------
(* The driver: demo.py main and the unit tests *)

\* no test_update_entity in progress
PlanIdle ==
    /\ improvement_plan = NoPlan
    /\ second_recommendations = <<>>

\* the configuration is the default one: simulation.max_entities is 1000
LimitDefault == configured_max_entities = max_entities

\* the default duration and update interval of a run
RunDefault ==
    /\ configured_duration = default_duration
    /\ configured_update_interval = default_update_interval

UpdateTestIdle ==
    /\ original_entity = NoEntity
    /\ updated_entity = NoEntity
    /\ update_calls = 0

\* no Config object constructed
ConfigIdle ==
    /\ config_data = NoConfig
    /\ config_key = <<>>
    /\ config_value = None
    /\ config_got = None
    /\ config_raised = "none"
    /\ config_ops = 0

\* SimulationEngine.__init__, and no dashboard request in progress
EngineIdle ==
    /\ running = FALSE
    /\ engine_pc = "idle"
    /\ engine_idx = 0
    /\ engine_new_entities = <<>>
    /\ stage_log = <<>>
    /\ reports = 0
    /\ stop_pc = "idle"
    /\ stopped_at = "none"
    /\ reader_pc = "idle"
    /\ reader_idx = 0
    /\ reader_len = 0
    /\ reader_torn = FALSE
    /\ reader_raised = "none"
    /\ engine_metrics = NoMetrics
    /\ ticks_done = 0

\* the generator and the engine before their first call
GeneratorIdle ==
    /\ rng = 0
    /\ uuid_counter = 0
    /\ generated = <<>>
    /\ requested = 0
    /\ issued_ids = <<>>
    /\ inserted = 0
    /\ current_time = 0

\* a detector nobody has called
DetectorIdle ==
    /\ is_trained = FALSE
    /\ fitted_on = <<>>
    /\ anomalies = <<>>
    /\ was_trained = FALSE
    /\ detector_log = <<>>

Init ==
    /\ pc = "start"
    /\ entities \in Populations
    /\ security_events \in EventLists
    /\ security_score = NoScore
    /\ new_security_score = NoScore
    /\ recommendations = <<>>
    /\ applied_count = 0
    /\ last_rec = NoRecommendation
    /\ success = FALSE
    /\ attack_scenarios = <<>>
    /\ raised = "none"
    /\ clock = 1
    /\ GeneratorIdle
    /\ DetectorIdle
    /\ UpdateTestIdle
    /\ PlanIdle
    /\ LimitDefault
    /\ RunDefault
    /\ ConfigIdle
    /\ EngineIdle
    /\ stage_input = NoInput

\* demo.py: security_score = evaluator.evaluate_security(entities_dict, [])
EvaluateSecurity ==
    /\ pc = "start"
    /\ security_score' = evaluate_security(entities, security_events)
    /\ pc' = "scored"
    /\ UNCHANGED <<entities, security_events, new_security_score, recommendations,
                   applied_count, last_rec, success, attack_scenarios, raised, clock,
                   generatorVars, detectorVars,
                   testVars, planVars, limitVars, configVars, engineVars>>
    /\ stage_input' = [entities |-> entities, security_events |-> security_events]

\* generate_recommendations applying its first recommendation to the map it was given
GenerateRecommendations_remediating ==
    /\ pc = "scored"
    /\ \E recs \in {generate_recommendations(entities, security_events, clock)} :
           /\ recommendations' = recs
           /\ entities' = IF recs = <<>> THEN entities
                          ELSE apply_recommendation(recs[1], entities, clock).entities
    /\ clock' = clock + 1
    /\ pc' = "recommended"
    /\ UNCHANGED <<security_events, security_score, new_security_score,
                   applied_count, last_rec, success, attack_scenarios, raised,
                   generatorVars, detectorVars,
                   testVars, planVars, limitVars, configVars, engineVars>>
    /\ stage_input' = [entities |-> entities, security_events |-> security_events]

\* demo.py: recommendations = enhancer.generate_recommendations(...)
GenerateRecommendations ==
    /\ pc = "scored"
    /\ recommendations' = generate_recommendations(entities, security_events, clock)
    /\ clock' = clock + 1
    /\ pc' = "recommended"
    /\ UNCHANGED <<entities, security_events, security_score, new_security_score,
                   applied_count, last_rec, success, attack_scenarios, raised,
                   generatorVars, detectorVars,
                   testVars, planVars, limitVars, configVars, engineVars>>
    /\ stage_input' = [entities |-> entities, security_events |-> security_events]

\* demo.py: for rec in recommendations[:5]: enhancer.apply_recommendation(rec, entities_dict)
\* (one iteration; the loop may stop after any prefix)
ApplyNextRecommendation ==
    /\ pc = "recommended"
    /\ applied_count < Len(recommendations)
    /\ \E r \in {apply_recommendation(recommendations[applied_count + 1], entities, clock)} :
           /\ entities' = r.entities
           /\ recommendations' = [recommendations EXCEPT ![applied_count + 1] = r.recommendation]
           /\ last_rec' = r.recommendation
           /\ success' = r.success
           /\ raised' = r.raised
    /\ applied_count' = applied_count + 1
    /\ clock' = clock + 1
    /\ UNCHANGED <<pc, security_events, security_score, new_security_score, attack_scenarios,
                   generatorVars, detectorVars,
                   testVars, planVars, limitVars, configVars, engineVars, stage_input>>

\* demo.py: new_security_score = evaluator.evaluate_security(entities_dict, [])
ReEvaluateSecurity ==
    /\ pc = "recommended"
    /\ new_security_score' = evaluate_security(entities, security_events)
    /\ pc' = "done"
    /\ UNCHANGED <<entities, security_events, security_score, recommendations,
                   applied_count, last_rec, success, attack_scenarios, raised, clock,
                   generatorVars, detectorVars,
                   testVars, planVars, limitVars, configVars, engineVars>>
    /\ stage_input' = [entities |-> entities, security_events |-> security_events]

\* every recommendation of the list has been applied, nothing else touched the
\* map, and generate_recommendations is called again on the same map and events
GenerateRecommendationsAgain ==
    /\ pc = "recommended"
    /\ applied_count = Len(recommendations)
    /\ second_recommendations' = generate_recommendations(entities, security_events, clock)
    /\ clock' = clock + 1
    /\ pc' = "regenerated"
    /\ UNCHANGED <<entities, security_events, security_score, new_security_score,
                   recommendations, applied_count, last_rec, success, attack_scenarios,
                   raised, improvement_plan, generatorVars, detectorVars, testVars,
                   limitVars, configVars, engineVars>>
    /\ stage_input' = [entities |-> entities, security_events |-> security_events]

\* test_apply_recommendation: a hand-built recommendation is applied
TestApplyRecommendation ==
    /\ pc = "start"
    /\ \E rec \in TestRecommendations(entities) :
         \E r \in {apply_recommendation(rec, entities, clock)} :
             /\ entities' = r.entities
             /\ last_rec' = r.recommendation
             /\ success' = r.success
             /\ raised' = r.raised
    /\ clock' = clock + 1
    /\ pc' = "tested"
    /\ UNCHANGED <<security_events, security_score, new_security_score, recommendations,
                   applied_count, attack_scenarios,
                   generatorVars, detectorVars,
                   testVars, planVars, limitVars, configVars, engineVars, stage_input>>

\* demo.py / test_predict_attacks: attack_scenarios = predictor.predict_attacks(...)
PredictAttacks ==
    /\ pc = "start"
    /\ \E r \in {predict_attacks(entities, security_events, clock)} :
           /\ attack_scenarios' = r.value
           /\ raised' = r.raised
    /\ clock' = clock + 1
    /\ pc' = "predicted"
    /\ UNCHANGED <<entities, security_events, security_score, new_security_score,
                   recommendations, applied_count, last_rec, success,
                   generatorVars, detectorVars,
                   testVars, planVars, limitVars, configVars, engineVars>>
    /\ stage_input' = [entities |-> entities, security_events |-> security_events]

\* plan = enhancer.generate_improvement_plan(entities, security_events, {})
GenerateImprovementPlan ==
    /\ pc = "start"
    /\ improvement_plan' = generate_improvement_plan(entities, security_events, clock)
    /\ clock' = clock + 1
    /\ pc' = "planned"
    /\ UNCHANGED <<entities, security_events, security_score, new_security_score,
                   recommendations, applied_count, last_rec, success, attack_scenarios,
                   raised, generatorVars, detectorVars, testVars, limitVars, configVars,
                   engineVars, stage_input, second_recommendations>>

Next ==
    \/ PredictAttacks
    \/ GenerateImprovementPlan
    \/ EvaluateSecurity
    \/ GenerateRecommendations
    \/ ApplyNextRecommendation
    \/ ReEvaluateSecurity
    \/ GenerateRecommendationsAgain
    \/ TestApplyRecommendation

Spec == Init /\ [][Next]_vars

-----------------------------------------------------------------------------
(* DigitalTwinGenerator                                                     *)
(*                                                                          *)
(* The `random` module is a generator with a state: every draw reads the    *)
(* state and advances it.  uuid.uuid4() hands out an identifier it has not  *)
(* handed out before, the n-th call returning the n-th identifier.          *)
(* Operations that draw take the generator state s and the uuid count u     *)
(* and return the states they leave next to their value.                    *)

RngModulus == 64      \* number of states of the random generator
MaxCount == 3         \* largest count a test passes to generate_entities
MaxSeed == 15         \* largest initial state of the random generator
MaxTicks == 2         \* simulation ticks
MaxUpdates == 2       \* update_entity calls a test makes on one entity

RngNext(s) == (s * 5 + 3) % RngModulus

\* the generator state after k draws
RECURSIVE RngAt(_, _)
RngAt(s, k) == IF k = 0 THEN s ELSE RngNext(RngAt(s, k - 1))

\* random.choice(list) / random.uniform(lo, hi) on a grid, read off the state
Pick(list, s) == list[((s * Len(list)) \div RngModulus) + 1]

\* random.random() < p, p in thousandths
Chance(s, per_thousand) == s * 1000 < per_thousand * RngModulus

\* str(uuid.uuid4()), the (u+1)-th identifier
uuid4(u) == "uuid-" \o ToString(u + 1)

entity_types ==
    [medical_device |-> [weight |-> 6,
                         vulnerabilities |-> <<"firmware_outdated", "default_credentials", "unencrypted_communication">>,
                         criticality |-> <<"high", "medium", "low">>],
     patient_monitor |-> [weight |-> 5,
                          vulnerabilities |-> <<"weak_authentication", "data_exposure", "network_isolation">>,
                          criticality |-> <<"high", "high", "medium">>],
     hospital_server |-> [weight |-> 4,
                          vulnerabilities |-> <<"unpatched_system", "privilege_escalation", "sql_injection">>,
                          criticality |-> <<"high", "medium", "medium">>],
     network_device |-> [weight |-> 3,
                         vulnerabilities |-> <<"misconfiguration", "weak_encryption", "backdoor_access">>,
                         criticality |-> <<"medium", "medium", "low">>],
     database |-> [weight |-> 2,
                   vulnerabilities |-> <<"weak_passwords", "unencrypted_data", "injection_attacks">>,
                   criticality |-> <<"high", "high", "medium">>]]

network_segments == <<"patient_care_network", "administrative_network", "research_network",
                      "emergency_network", "isolation_network">>

security_levels == <<"low", "medium", "high", "critical">>

\* random.choices(keys, weights): the weights 0.3, 0.25, 0.2, 0.15, 0.1 in twentieths
_select_entity_type(s) ==
    LET total == SumSeq([i \in 1..Len(EntityTypes) |-> entity_types[EntityTypes[i]].weight])
        point == (s * total) \div RngModulus
        below(i) == SumSeq([j \in 1..i |-> entity_types[EntityTypes[j]].weight])
    IN  EntityTypes[CHOOSE i \in 1..Len(EntityTypes) :
                        /\ point < below(i)
                        /\ \A j \in 1..(i - 1) : point >= below(j)]

name_prefixes ==
    [medical_device |-> <<"MRI", "CT", "X-Ray", "Ultrasound", "ECG">>,
     patient_monitor |-> <<"Monitor", "VitalSigns", "PatientCare", "ICU", "ER">>,
     hospital_server |-> <<"Server", "MainFrame", "DataCenter", "Backup", "Archive">>,
     network_device |-> <<"Router", "Switch", "Firewall", "Gateway", "Hub">>,
     database |-> <<"PatientDB", "MedicalDB", "AdminDB", "ResearchDB", "ArchiveDB">>]

\* two draws: the prefix and the four-digit suffix
_generate_name(entity_type, s) ==
    Pick(name_prefixes[entity_type], s) \o "-" \o Pick(<<"1000", "5500", "9999">>, RngNext(s))

\* ten draws, one per key
_generate_security_config(s) ==
    LET flag(k) == Pick(<<TRUE, FALSE>>, RngAt(s, k))
    IN  SecurityConfig(flag(0), flag(1), flag(2), flag(3),
                       Pick(<<"role_based", "attribute_based", "none">>, RngAt(s, 4)),
                       flag(5), flag(6),
                       Pick(<<"automatic", "manual", "none">>, RngAt(s, 7)),
                       flag(8), flag(9))

\* the keys of performance_metrics, in the order the dict holds them
MetricKeys == <<"cpu_usage", "memory_usage", "network_usage", "disk_usage",
                "response_time", "uptime", "error_rate">>

\* seven draws, each uniform over its interval: the ends and a point between
_generate_performance_metrics(s) ==
    [cpu_usage |-> Pick(<<Frac(10, 1), Frac(50, 1), Frac(90, 1)>>, s),
     memory_usage |-> Pick(<<Frac(20, 1), Frac(50, 1), Frac(85, 1)>>, RngAt(s, 1)),
     network_usage |-> Pick(<<Frac(5, 1), Frac(40, 1), Frac(80, 1)>>, RngAt(s, 2)),
     disk_usage |-> Pick(<<Frac(15, 1), Frac(50, 1), Frac(95, 1)>>, RngAt(s, 3)),
     response_time |-> Pick(<<Frac(10, 1), Frac(250, 1), Frac(500, 1)>>, RngAt(s, 4)),
     uptime |-> Pick(<<Frac(4, 5), Frac(9, 10), Frac(999, 1000)>>, RngAt(s, 5)),
     error_rate |-> Pick(<<Frac(0, 1), Frac(1, 40), Frac(1, 20)>>, RngAt(s, 6))]

\* one draw for the number of connections, two per connection (encrypted,
\* bandwidth) and one uuid each, then one draw for the latency
_generate_connectivity(s, u) ==
    LET num_connections == Pick(<<1, 2, 3, 4, 5>>, s)
        connections == [i \in 1..num_connections |->
                          [target_id |-> uuid4(u + i - 1),
                           encrypted |-> Pick(<<TRUE, FALSE>>, RngAt(s, 2 * i - 1)),
                           bandwidth |-> Pick(<<10, 500, 1000>>, RngAt(s, 2 * i))]]
    IN  [value |-> [connections |-> connections,
                    total_bandwidth |-> SumSeq([i \in 1..num_connections |-> connections[i].bandwidth]),
                    network_latency |-> Pick(<<1, 50, 100>>, RngAt(s, 2 * num_connections + 1))],
         rng |-> RngAt(s, 2 * num_connections + 2),
         uuid |-> u + num_connections]

\* _create_entity with the name of the entity as its id
_create_entity_id_from_name(entity_type, s, u, now) ==
    LET connectivity == _generate_connectivity(RngAt(s, 22), u)
    IN  [value |-> [id |-> _generate_name(entity_type, s),
                    type |-> entity_type,
                    name |-> _generate_name(entity_type, s),
                    network_segment |-> Pick(network_segments, RngAt(s, 2)),
                    security_level |-> Pick(security_levels, RngAt(s, 3)),
                    criticality |-> Pick(entity_types[entity_type].criticality, RngAt(s, 4)),
                    last_updated |-> now,
                    status |-> "active",
                    security_config |-> _generate_security_config(RngAt(s, 5)),
                    vulnerabilities |-> <<>>,
                    threat_indicators |-> <<>>,
                    performance_metrics |-> _generate_performance_metrics(RngAt(s, 15)),
                    connectivity |-> connectivity.value],
         rng |-> connectivity.rng,
         uuid |-> connectivity.uuid]

\* the entity dict; location and specifications, which nothing reads, are left out
_create_entity(entity_type, s, u, now) ==
    LET connectivity == _generate_connectivity(RngAt(s, 22), u + 1)
    IN  [value |-> [id |-> uuid4(u),
                    type |-> entity_type,
                    name |-> _generate_name(entity_type, s),
                    network_segment |-> Pick(network_segments, RngAt(s, 2)),
                    security_level |-> Pick(security_levels, RngAt(s, 3)),
                    criticality |-> Pick(entity_types[entity_type].criticality, RngAt(s, 4)),
                    last_updated |-> now,
                    status |-> "active",
                    security_config |-> _generate_security_config(RngAt(s, 5)),
                    vulnerabilities |-> <<>>,
                    threat_indicators |-> <<>>,
                    performance_metrics |-> _generate_performance_metrics(RngAt(s, 15)),
                    connectivity |-> connectivity.value],
         rng |-> connectivity.rng,
         uuid |-> connectivity.uuid]

\* for _ in range(count): entities.append(self._create_entity(self._select_entity_type()))
RECURSIVE generate_entities(_, _, _, _)
generate_entities(count, s, u, now) ==
    IF count <= 0 THEN [value |-> <<>>, rng |-> s, uuid |-> u]
    ELSE With(_create_entity(_select_entity_type(s), RngNext(s), u, now), LAMBDA first :
         With(generate_entities(count - 1, first.rng, first.uuid, now), LAMBDA rest :
              [value |-> <<first.value>> \o rest.value, rng |-> rest.rng, uuid |-> rest.uuid]))

\* one draw per metric; the bound applied is the first whose word occurs in the key
RECURSIVE _update_performance_metrics(_, _, _)
_update_performance_metrics(current_metrics, keys, s) ==
    IF keys = <<>> THEN current_metrics
    ELSE LET key == Head(keys)
             variation == Pick(<<Frac(-1, 10), Frac(0, 1), Frac(1, 10)>>, s)
             new_value == FracMul(current_metrics[key], FracAdd(Int2Frac(1), variation))
             bounded == IF IsSubstring("usage", key)
                            THEN FracMax(Int2Frac(0), FracMin(Int2Frac(100), new_value))
                        ELSE IF IsSubstring("rate", key)
                            THEN FracMax(Int2Frac(0), FracMin(Int2Frac(1), new_value))
                        ELSE IF IsSubstring("time", key)
                            THEN FracMax(Int2Frac(0), new_value)
                        ELSE IF IsSubstring("uptime", key)
                            THEN FracMax(Int2Frac(0), FracMin(Int2Frac(1), new_value))
                        ELSE new_value
         IN  With([current_metrics EXCEPT ![key] = bounded], LAMBDA updated_metrics :
                  _update_performance_metrics(updated_metrics, Tail(keys), RngNext(s)))

\* one draw for the latency, one per connection for its bandwidth
_update_connectivity(current_connectivity, s) ==
    LET connections == [i \in 1..Len(current_connectivity.connections) |->
                          [current_connectivity.connections[i] EXCEPT
                              !.bandwidth = Max(0, @ + Pick(<<-10, 0, 10>>, RngAt(s, i)))]]
    IN  [current_connectivity EXCEPT
            !.network_latency = Max(0, @ + Pick(<<-5, 0, 5>>, s)),
            !.connections = connections,
            !.total_bandwidth = SumSeq([i \in 1..Len(connections) |-> connections[i].bandwidth])]

\* four draws and one uuid
_generate_vulnerability(entity_type, s, u) ==
    [id |-> uuid4(u),
     type |-> Pick(entity_types[entity_type].vulnerabilities, s),
     severity |-> Pick(<<"low", "medium", "high", "critical">>, RngAt(s, 1)),
     status |-> "open",
     cvss_score |-> Pick(<<1, 5, 10>>, RngAt(s, 2)),
     exploitability |-> Pick(<<"easy", "medium", "hard", "theoretical">>, RngAt(s, 3))]

\* three draws and one uuid (the source address is left out)
_generate_threat_indicator(s, u) ==
    [id |-> uuid4(u),
     type |-> Pick(<<"suspicious_network_activity", "unusual_login_attempts", "data_exfiltration",
                     "malware_detection", "privilege_escalation", "denial_of_service">>, s),
     confidence |-> Pick(<<Frac(1, 10), Frac(1, 2), Frac(1, 1)>>, RngAt(s, 1)),
     severity |-> Pick(<<"low", "medium", "high", "critical">>, RngAt(s, 2))]

\* update_entity keeping only the findings of the call: each list is rebuilt
\* from what the call adds instead of being appended to
update_entity_replacing(entity, s, u, now) ==
    LET n == Len(entity.connectivity.connections)
        s1 == RngAt(s, Len(MetricKeys))
        s2 == RngAt(s1, n + 1)
        add_vuln == Chance(s2, 10)
        s3 == IF add_vuln THEN RngAt(s2, 5) ELSE RngNext(s2)
        u3 == IF add_vuln THEN u + 1 ELSE u
        add_threat == Chance(s3, 5)
        s4 == IF add_threat THEN RngAt(s3, 4) ELSE RngNext(s3)
        u4 == IF add_threat THEN u3 + 1 ELSE u3
    IN  [value |-> [entity EXCEPT
                       !.performance_metrics = _update_performance_metrics(@, MetricKeys, s),
                       !.connectivity = _update_connectivity(@, s1),
                       !.last_updated = now,
                       !.vulnerabilities =
                           IF add_vuln
                           THEN <<_generate_vulnerability(entity.type, RngNext(s2), u)>>
                           ELSE <<>>,
                       !.threat_indicators =
                           IF add_threat
                           THEN <<_generate_threat_indicator(RngNext(s3), u3)>>
                           ELSE <<>>],
         rng |-> s4,
         uuid |-> u4]

update_entity(entity, s, u, now) ==
    LET n == Len(entity.connectivity.connections)
        s1 == RngAt(s, Len(MetricKeys))         \* after the metrics
        s2 == RngAt(s1, n + 1)                  \* after the connectivity
        add_vuln == Chance(s2, 10)
        s3 == IF add_vuln THEN RngAt(s2, 5) ELSE RngNext(s2)
        u3 == IF add_vuln THEN u + 1 ELSE u
        add_threat == Chance(s3, 5)
        s4 == IF add_threat THEN RngAt(s3, 4) ELSE RngNext(s3)
        u4 == IF add_threat THEN u3 + 1 ELSE u3
    IN  [value |-> [entity EXCEPT
                       !.performance_metrics = _update_performance_metrics(@, MetricKeys, s),
                       !.connectivity = _update_connectivity(@, s1),
                       !.last_updated = now,
                       !.vulnerabilities =
                           IF add_vuln
                           THEN Append(@, _generate_vulnerability(entity.type, RngNext(s2), u))
                           ELSE @,
                       !.threat_indicators =
                           IF add_threat
                           THEN Append(@, _generate_threat_indicator(RngNext(s3), u3))
                           ELSE @],
         rng |-> s4,
         uuid |-> u4]

-----------------------------------------------------------------------------
(* SimulationEngine._update_digital_twins *)

batch_size == 10

\* the values of simulation.max_entities a configuration file is given: below a
\* batch, a batch, between one batch and two, and the default
MaxEntitiesValues == {SmallLimit, batch_size, batch_size + SmallLimit, max_entities}

\* self.entities[entity['id']] = entity
StoreById(ents, entity) ==
    IF EntityIndex(ents, entity.id) = {} THEN Append(ents, entity)
    ELSE [i \in 1..Len(ents) |-> IF ents[i].id = entity.id THEN entity ELSE ents[i]]

\* for entity in new_entities: self.entities[entity['id']] = entity
RECURSIVE StoreFrom(_, _, _)
StoreFrom(ents, new_entities, i) ==
    IF i > Len(new_entities) THEN ents
    ELSE With(StoreById(ents, new_entities[i]), LAMBDA stored :
              StoreFrom(stored, new_entities, i + 1))

\* for entity_id, entity in self.entities.items(): ... update_entity(entity)
RECURSIVE UpdateFrom(_, _, _, _, _)
UpdateFrom(ents, i, s, u, now) ==
    IF i > Len(ents) THEN [value |-> ents, rng |-> s, uuid |-> u]
    ELSE With(update_entity(ents[i], s, u, now), LAMBDA r :
         With([ents EXCEPT ![i] = r.value], LAMBDA updated :
              UpdateFrom(updated, i + 1, r.rng, r.uuid, now)))

_update_digital_twins(ents, s, u, now) ==
    With(IF Len(ents) < configured_max_entities
         THEN generate_entities(batch_size, s, u, now)
         ELSE [value |-> <<>>, rng |-> s, uuid |-> u], LAMBDA new_entities :
    With(StoreFrom(ents, new_entities.value, 1), LAMBDA stored :
    With(UpdateFrom(stored, 1, new_entities.rng, new_entities.uuid, now), LAMBDA updated :
         [value |-> updated.value, new_entities |-> new_entities.value,
          rng |-> updated.rng, uuid |-> updated.uuid])))

InitGen ==
    /\ pc = "engine"
    /\ entities = <<>>
    /\ security_events = <<>>
    /\ security_score = NoScore
    /\ new_security_score = NoScore
    /\ recommendations = <<>>
    /\ applied_count = 0
    /\ last_rec = NoRecommendation
    /\ success = FALSE
    /\ attack_scenarios = <<>>
    /\ raised = "none"
    /\ clock = 1
    /\ rng \in 0..Min(MaxSeed, RngModulus - 1)
    /\ uuid_counter = 0
    /\ generated = <<>>
    /\ requested = 0
    /\ issued_ids = <<>>
    /\ inserted = 0
    /\ current_time = 0
    /\ DetectorIdle
    /\ UpdateTestIdle
    /\ PlanIdle
    /\ configured_max_entities \in MaxEntitiesValues
    /\ RunDefault
    /\ ConfigIdle
    /\ EngineIdle
    /\ stage_input = NoInput

pipelineVars == <<security_events, security_score, new_security_score, recommendations,
                  applied_count, last_rec, success, attack_scenarios, raised>>

\* test_generate_entities / demo.py: entities = generator.generate_entities(n),
\* before the simulation starts
GenerateEntities ==
    /\ pc = "engine"
    /\ current_time = 0
    /\ \E count \in 0..MaxCount :
         \E r \in {generate_entities(count, rng, uuid_counter, clock)} :
             /\ generated' = r.value
             /\ requested' = count
             /\ rng' = r.rng
             /\ uuid_counter' = r.uuid
             /\ issued_ids' = issued_ids \o [i \in 1..Len(r.value) |-> r.value[i].id]
    /\ clock' = clock + 1
    /\ pc' = "generated"
    /\ UNCHANGED <<entities, inserted, current_time, pipelineVars, detectorVars,
                   testVars, planVars, limitVars, configVars, engineVars, stage_input>>

\* one tick of SimulationEngine.run, up to the end of _update_digital_twins
UpdateDigitalTwins ==
    /\ pc \in {"engine", "generated"}
    /\ current_time < MaxTicks
    /\ \E r \in {_update_digital_twins(entities, rng, uuid_counter, clock)} :
           /\ entities' = r.value
           /\ rng' = r.rng
           /\ uuid_counter' = r.uuid
           /\ issued_ids' = issued_ids \o [i \in 1..Len(r.new_entities) |-> r.new_entities[i].id]
           /\ inserted' = inserted + Len(r.new_entities)
    /\ current_time' = current_time + 1
    /\ clock' = clock + 1
    /\ UNCHANGED <<pc, generated, requested, pipelineVars, detectorVars,
                   testVars, planVars, limitVars, configVars, engineVars, stage_input>>

\* test_update_entity: original_entity = entities[0];
\* updated_entity = generator.update_entity(original_entity), and again on the
\* entity returned.  update_entity assigns into the dict it is given and
\* returns that dict (line 212), so the caller's original_entity, the list
\* element and updated_entity are one object and read the same afterwards.
TestUpdateEntity ==
    /\ pc \in {"generated", "updated"}
    /\ generated # <<>>
    /\ update_calls < MaxUpdates
    /\ \E r \in {update_entity(generated[1], rng, uuid_counter, clock)} :
           /\ updated_entity' = r.value
           /\ original_entity' = r.value
           /\ generated' = [generated EXCEPT ![1] = r.value]
           /\ rng' = r.rng
           /\ uuid_counter' = r.uuid
    /\ update_calls' = update_calls + 1
    /\ clock' = clock + 1
    /\ pc' = "updated"
    /\ stage_input' = [entities |-> <<generated[1]>>, security_events |-> <<>>]
    /\ UNCHANGED <<entities, requested, issued_ids, inserted, current_time, pipelineVars,
                   detectorVars, planVars, limitVars, configVars, engineVars>>

\* test_predict_attacks: entities = generator.generate_entities(10),
\* entities_dict = {entity['id']: entity for entity in entities},
\* attack_scenarios = predictor.predict_attacks(entities_dict, [])
TestPredictAttacks ==
    /\ pc = "generated"
    /\ \E r \in {predict_attacks(generated, <<>>, clock)} :
           /\ attack_scenarios' = r.value
           /\ raised' = r.raised
    /\ stage_input' = [entities |-> generated, security_events |-> <<>>]
    /\ clock' = clock + 1
    /\ pc' = "predicted"
    /\ UNCHANGED <<entities, security_events, security_score, new_security_score,
                   recommendations, applied_count, last_rec, success,
                   generatorVars, detectorVars, testVars, planVars, limitVars, configVars, engineVars>>

NextGen ==
    \/ GenerateEntities
    \/ UpdateDigitalTwins
    \/ TestUpdateEntity
    \/ TestPredictAttacks

SpecGen == InitGen /\ [][NextGen]_vars

-----------------------------------------------------------------------------
(* AnomalyDetector                                                          *)
(*                                                                          *)
(* StandardScaler and IsolationForest are library objects.  What the model  *)
(* keeps of them is the matrix they were fitted on (<<>> while unfitted);   *)
(* the label and the score they give an entity are theirs to choose, so a   *)
(* call takes them as an input, one outcome per entity.  Transforming with  *)
(* an unfitted scaler raises NotFittedError.                                *)

type_encoding ==
    [medical_device |-> 1, patient_monitor |-> 2, hospital_server |-> 3,
     network_device |-> 4, database |-> 5]

criticality_encoding == [low |-> 1, medium |-> 2, high |-> 3]

\* entity.get('performance_metrics', {}).get(key, 0)
Metric(entity, key) == DictGet(DictGet(entity, "performance_metrics", <<>>), key, Int2Frac(0))

Indicator(flag) == IF flag THEN 1 ELSE 0

\* the feature vector: 7 metrics, 3 connectivity values, 6 control indicators,
\* the two counts, the type code and the criticality code
extract_features(entity) ==
    LET connectivity == DictGet(entity, "connectivity", <<>>)
    IN  <<Metric(entity, "cpu_usage"), Metric(entity, "memory_usage"),
          Metric(entity, "network_usage"), Metric(entity, "disk_usage"),
          Metric(entity, "response_time"), Metric(entity, "error_rate"),
          Metric(entity, "uptime"),
          Len(DictGet(connectivity, "connections", <<>>)),
          DictGet(connectivity, "total_bandwidth", 0),
          DictGet(connectivity, "network_latency", 0),
          Indicator(Enabled(entity, "encryption_enabled")),
          Indicator(Enabled(entity, "authentication_required")),
          Indicator(Enabled(entity, "firewall_enabled")),
          Indicator(Enabled(entity, "intrusion_detection")),
          Indicator(Enabled(entity, "audit_logging")),
          Indicator(Enabled(entity, "backup_enabled")),
          Len(DictGet(entity, "vulnerabilities", <<>>)),
          Len(DictGet(entity, "threat_indicators", <<>>)),
          DictGet(type_encoding, DictGet(entity, "type", "unknown"), 0),
          DictGet(criticality_encoding, DictGet(entity, "criticality", "low"), 1)>>

\* np.array(features_list)
FeatureMatrix(ents) == [i \in 1..Len(ents) |-> extract_features(ents[i])]

\* the state of the detector: is_trained, and what scaler and model are fitted on
Detector(trained, fit) == [is_trained |-> trained, fitted_on |-> fit]

\* train that fits only a detector that was never fitted
train_once(ents, detector) ==
    IF ents = <<>>
    THEN [detector |-> detector, log |-> <<"train">>]
    ELSE IF detector.fitted_on # <<>>
         THEN [detector |-> Detector(TRUE, detector.fitted_on), log |-> <<"train", "fit", "save">>]
         ELSE [detector |-> Detector(TRUE, FeatureMatrix(ents)),
               log |-> <<"train", "fit", "save">>]

\* returns the detector as train leaves it, and the steps train took
train(ents, detector) ==
    IF ents = <<>>
    THEN [detector |-> detector, log |-> <<"train">>]
    ELSE [detector |-> Detector(TRUE, FeatureMatrix(ents)),
          log |-> <<"train", "fit", "save">>]

_determine_anomaly_severity(score) ==
    IF FracLT(Frac(8, 10), score) THEN "critical"
    ELSE IF FracLT(Frac(6, 10), score) THEN "high"
    ELSE IF FracLT(Frac(4, 10), score) THEN "medium"
    ELSE "low"

\* the description, as the parts the f-string joins
_generate_anomaly_description(entity, score) ==
    LET entity_type == DictGet(entity, "type", "unknown")
        connectivity == DictGet(entity, "connectivity", <<>>)
        descriptions ==
            AppendIf(AppendIf(AppendIf(AppendIf(AppendIf(AppendIf(<<>>,
                FracLT(Int2Frac(90), Metric(entity, "cpu_usage")), "Unusually high CPU usage"),
                FracLT(Int2Frac(95), Metric(entity, "memory_usage")), "Unusually high memory usage"),
                FracLT(Frac(1, 10), Metric(entity, "error_rate")), "High error rate"),
                ~Enabled(entity, "encryption_enabled"), "Encryption disabled"),
                ~Enabled(entity, "authentication_required"), "No authentication required"),
                Len(DictGet(connectivity, "connections", <<>>)) > 10,
                "Unusually high number of connections")
    IN  IF descriptions # <<>>
        THEN [text |-> "Anomaly detected in", entity_type |-> entity_type,
              descriptions |-> descriptions]
        ELSE [text |-> "Statistical anomaly detected in", entity_type |-> entity_type,
              score |-> score]

\* what model.predict and model.decision_function may return for one entity:
\* the label 1 (normal) or -1 (anomaly), and the score
Outcome(prediction, score) == [prediction |-> prediction, score |-> score]

Outcomes ==
    {Outcome(1, Frac(1, 10))}
    \cup {Outcome(-1, Frac(-n, 10)) : n \in {1, 5, 7, 9}}

FracAbs(f) == IF f.num < 0 THEN Frac(-f.num, f.den) ELSE f

\* the loop of detect_anomalies over the entities from the i-th on
RECURSIVE ScoreFrom(_, _, _)
ScoreFrom(ents, outcome, i) ==
    IF i > Len(ents) THEN <<>>
    ELSE LET entity == ents[i]
             score == FracAbs(outcome[i].score)
         IN  (IF outcome[i].prediction = -1
              THEN <<[entity_id |-> entity.id,
                      entity_name |-> DictGet(entity, "name", "Unknown"),
                      anomaly_score |-> score,
                      severity |-> _determine_anomaly_severity(score),
                      features |-> extract_features(entity),
                      description |-> _generate_anomaly_description(entity, score),
                      timestamp |-> DictGet(entity, "last_updated", None)]>>
              ELSE <<>>)
             \o ScoreFrom(ents, outcome, i + 1)

\* detect_anomalies that scores without training first
detect_anomalies_without_training(ents, detector, outcome) ==
    IF ents # <<>> /\ detector.fitted_on = <<>>
    THEN [value |-> <<>>, detector |-> detector, raised |-> "NotFittedError",
          log |-> <<"score">>]
    ELSE [value |-> ScoreFrom(ents, outcome, 1), detector |-> detector, raised |-> "none",
          log |-> [i \in 1..Len(ents) |-> "score"]]

\* returns the list, the detector as the call leaves it, the exception that
\* left the call and the steps the call took
detect_anomalies(ents, detector, outcome) ==
    LET trained == IF ~detector.is_trained THEN train(ents, detector)
                   ELSE [detector |-> detector, log |-> <<>>]
    IN  IF ents # <<>> /\ trained.detector.fitted_on = <<>>
        THEN [value |-> <<>>, detector |-> trained.detector, raised |-> "NotFittedError",
              log |-> trained.log \o <<"score">>]
        ELSE [value |-> ScoreFrom(ents, outcome, 1), detector |-> trained.detector,
              raised |-> "none",
              log |-> trained.log \o [i \in 1..Len(ents) |-> "score"]]

\* the populations handed to the detector: the first n entities of a map
\* that alternates two shapes, n from 0 on
DetectorShapes == <<[config |-> ConfigAllOff, crit |-> "high"],
                    [config |-> ConfigAllOn, crit |-> "medium"]>>

DetectorPopulations ==
    {[i \in 1..n |-> MakeEntity(EntityIds[i], DetectorShapes[(i % 2) + 1])] : n \in 0..MaxEntities}

\* AnomalyDetector.__init__: a new model, or the model and scaler a previous
\* run saved (fitted then on that run's population)
InitAnomaly ==
    /\ pc = "detector"
    /\ entities = <<>>
    /\ security_events = <<>>
    /\ security_score = NoScore
    /\ new_security_score = NoScore
    /\ recommendations = <<>>
    /\ applied_count = 0
    /\ last_rec = NoRecommendation
    /\ success = FALSE
    /\ attack_scenarios = <<>>
    /\ raised = "none"
    /\ clock = 1
    /\ GeneratorIdle
    /\ \/ is_trained = FALSE /\ fitted_on = <<>>
       \/ /\ is_trained = TRUE
          /\ \E saved \in DetectorPopulations : saved # <<>> /\ fitted_on = FeatureMatrix(saved)
    /\ anomalies = <<>>
    /\ was_trained = FALSE
    /\ detector_log = <<>>
    /\ UpdateTestIdle
    /\ PlanIdle
    /\ LimitDefault
    /\ RunDefault
    /\ ConfigIdle
    /\ EngineIdle
    /\ stage_input = NoInput

\* demo.py / app.py: anomaly_detector.train(entities_dict)
Train ==
    /\ pc \in {"detector", "trained", "detected"}
    /\ \E population \in DetectorPopulations :
         \E r \in {train(population, Detector(is_trained, fitted_on))} :
             /\ entities' = population
             /\ is_trained' = r.detector.is_trained
             /\ fitted_on' = r.detector.fitted_on
             /\ detector_log' = r.log
    /\ pc' = "trained"
    /\ UNCHANGED <<security_events, security_score, new_security_score, recommendations,
                   applied_count, last_rec, success, attack_scenarios, raised, clock,
                   anomalies, was_trained, generatorVars,
                   testVars, planVars, limitVars, configVars, engineVars, stage_input>>

\* dashboard.py: anomalies = anomaly_detector.detect_anomalies(self.simulation.entities)
DetectAnomalies ==
    /\ pc \in {"detector", "trained", "detected"}
    /\ raised = "none"
    /\ \E population \in DetectorPopulations :
         \E outcome \in [1..Len(population) -> Outcomes] :
             \E r \in {detect_anomalies(population, Detector(is_trained, fitted_on), outcome)} :
                 /\ entities' = population
                 /\ stage_input' = [entities |-> population, security_events |-> security_events]
                 /\ anomalies' = r.value
                 /\ is_trained' = r.detector.is_trained
                 /\ fitted_on' = r.detector.fitted_on
                 /\ raised' = r.raised
                 /\ detector_log' = r.log
    /\ was_trained' = is_trained
    /\ pc' = "detected"
    /\ UNCHANGED <<security_events, security_score, new_security_score, recommendations,
                   applied_count, last_rec, success, attack_scenarios, clock, generatorVars,
                   testVars, planVars, limitVars, configVars, engineVars>>

NextAnomaly ==
    \/ Train
    \/ DetectAnomalies

SpecAnomaly == InitAnomaly /\ [][NextAnomaly]_vars

\* the analysis stages together: the pipeline of demo.py and the detector
InitStages == Init \/ InitAnomaly

NextStages == Next \/ NextAnomaly

SpecStages == InitStages /\ [][NextStages]_vars

-----------------------------------------------------------------------------
(* SimulationEngine.run, SimulationEngine.stop and the dashboard            *)
(*                                                                          *)
(* main.py runs the simulation in the main thread and the dashboard (a      *)
(* Flask server) in a thread of its own.  The threads share the engine      *)
(* object; a thread switch can come between any two statements.  The        *)
(* simulation thread is followed statement by statement through             *)
(* _update_digital_twins and update_entity, where it writes the entity map, *)
(* and stage by stage after that.  The monitoring thread only samples       *)
(* resource counters and is left out.                                       *)

MaxEngineTicks == 1   \* simulation.duration, in ticks of update_interval
MaxRunTicks == 2      \* ticks of one run() the model follows
MaxInterval == 2      \* largest configured simulation.update_interval

\* initial states of the random generator under the engine: one after which no
\* scenario of the first tick has a probability above 0.7, one after which one has
EngineSeeds == {1, 26}

AllStages == <<"update", "detect", "predict", "evaluate", "enhance", "metrics">>

\* the positions of the simulation thread inside _simulation_step
TickPositions == {"generate", "insert", "u_metrics", "u_bandwidth", "u_total", "u_stamp",
                  "u_findings", "detect", "predict", "evaluate", "enhance", "metrics"}

\* line 192: entity['performance_metrics'] = self._update_performance_metrics(...)
MetricsStep(entity, s) ==
    [entity EXCEPT !.performance_metrics = _update_performance_metrics(@, MetricKeys, s)]

\* _update_connectivity up to the recalculation: the latency and the bandwidth of
\* every connection are written into the dict the entity holds
BandwidthStep(entity, s) ==
    [entity EXCEPT !.connectivity =
        [_update_connectivity(entity.connectivity, s) EXCEPT
            !.total_bandwidth = entity.connectivity.total_bandwidth]]

\* _update_connectivity: current_connectivity['total_bandwidth'] = sum(...)
TotalStep(entity) ==
    [entity EXCEPT !.connectivity.total_bandwidth =
        SumSeq([i \in 1..Len(entity.connectivity.connections) |->
                   entity.connectivity.connections[i].bandwidth])]

\* line 200: entity['last_updated'] = datetime.now()
StampStep(entity, now) == [entity EXCEPT !.last_updated = now]

\* lines 203-210: the new vulnerability (1%) and the new threat indicator (0.5%)
FindingsStep(entity, s2, u) ==
    LET add_vuln == Chance(s2, 10)
        s3 == IF add_vuln THEN RngAt(s2, 5) ELSE RngNext(s2)
        u3 == IF add_vuln THEN u + 1 ELSE u
        add_threat == Chance(s3, 5)
        s4 == IF add_threat THEN RngAt(s3, 4) ELSE RngNext(s3)
        u4 == IF add_threat THEN u3 + 1 ELSE u3
    IN  [value |-> [entity EXCEPT
                       !.vulnerabilities =
                           IF add_vuln
                           THEN Append(@, _generate_vulnerability(entity.type, RngNext(s2), u))
                           ELSE @,
                       !.threat_indicators =
                           IF add_threat
                           THEN Append(@, _generate_threat_indicator(RngNext(s3), u3))
                           ELSE @],
         rng |-> s4,
         uuid |-> u4]

\* VulnerabilityDetector.detect_vulnerabilities: one record for every entity whose
\* encryption is disabled, the one mapping that is given; the record names the
\* system it was found on, which the engine logs
detect_vulnerabilities(ents) ==
    Flatten([i \in 1..Len(ents) |->
               IF Enabled(ents[i], "encryption_enabled") THEN <<>>
               ELSE <<[type |-> "encryption_disabled",
                       severity |-> "high",
                       description |-> "encryption disabled",
                       affected_system |-> ents[i].id]>>])

\* _predict_attacks: the exception that leaves it, "none" if none.  The logging
\* call for a scenario of probability above 0.7 reads scenario['source'], a key
\* no scenario has.
_predict_attacks(ents, events, now) ==
    With(predict_attacks(ents, events, now), LAMBDA r :
         IF r.raised # "none" THEN r.raised
         ELSE IF \E i \in 1..Len(r.value) : FracLT(Frac(7, 10), r.value[i].probability)
              THEN "KeyError"
              ELSE "none")

\* _enhance_resilience: every recommendation of priority 'high' is applied, in order
RECURSIVE ApplyHighPriority(_, _, _, _)
ApplyHighPriority(recs, i, ents, now) ==
    IF i > Len(recs) THEN ents
    ELSE IF recs[i].priority = "high"
         THEN With(apply_recommendation(recs[i], ents, now), LAMBDA r :
                   ApplyHighPriority(recs, i + 1, r.entities, now))
         ELSE ApplyHighPriority(recs, i + 1, ents, now)

_enhance_resilience(ents, events, now) ==
    With(generate_recommendations(ents, events, now), LAMBDA recs :
         [recommendations |-> recs, entities |-> ApplyHighPriority(recs, 1, ents, now)])

\* the keys _update_metrics writes
_update_metrics(now_tick, ents, events) ==
    [current_time |-> now_tick,
     entity_count |-> Len(ents),
     event_count |-> Len(events),
     vulnerability_count |-> Len(SelectWhere(events, LAMBDA e : e.type = "vulnerability")),
     attack_count |-> Len(SelectWhere(events, LAMBDA e : e.type = "attack"))]

\* SimulationEngine(config), the dashboard started, run() not yet called
EngineConstructed ==
    /\ pc = "simulation"
    /\ entities = <<>>
    /\ security_events = <<>>
    /\ security_score = NoScore
    /\ new_security_score = NoScore
    /\ recommendations = <<>>
    /\ applied_count = 0
    /\ last_rec = NoRecommendation
    /\ success = FALSE
    /\ attack_scenarios = <<>>
    /\ raised = "none"
    /\ clock = 1
    /\ rng \in {s \in EngineSeeds : s < RngModulus}
    /\ uuid_counter = 0
    /\ generated = <<>>
    /\ requested = 0
    /\ issued_ids = <<>>
    /\ inserted = 0
    /\ current_time = 0
    /\ DetectorIdle
    /\ UpdateTestIdle
    /\ PlanIdle
    /\ ConfigIdle
    /\ EngineIdle
    /\ stage_input = NoInput

\* the duration of a run is MaxEngineTicks ticks of one second
InitEngine ==
    /\ EngineConstructed
    /\ LimitDefault
    /\ configured_duration = MaxEngineTicks
    /\ configured_update_interval = default_update_interval

simulationThreadRest == <<pc, new_security_score, applied_count, last_rec, success,
                           attack_scenarios, generated, requested, issued_ids, inserted,
                           detectorVars, testVars, planVars, limitVars, configVars, stage_input, reports,
                           stop_pc, stopped_at, reader_pc, reader_idx, reader_len,
                           reader_torn, reader_raised>>

simulationThreadFrame == <<simulationThreadRest, ticks_done>>

\* run(): self.running = True; self.current_time = 0
RunBegin ==
    /\ engine_pc = "idle"
    /\ running' = TRUE
    /\ current_time' = 0
    /\ engine_pc' = "loop"
    /\ UNCHANGED <<entities, security_events, security_score, recommendations, raised, clock,
                   rng, uuid_counter, engine_idx, engine_new_entities, stage_log,
                   engine_metrics, simulationThreadFrame>>

\* while self.running and self.current_time < duration: the test
LoopTest ==
    /\ engine_pc = "loop"
    /\ IF running /\ current_time < configured_duration
       THEN /\ ticks_done < MaxRunTicks
            /\ engine_pc' = "generate"
            /\ stage_log' = <<>>
       ELSE /\ engine_pc' = "finally"
            /\ UNCHANGED stage_log
    /\ UNCHANGED <<running, current_time, entities, security_events, security_score,
                   recommendations, raised, clock, rng, uuid_counter, engine_idx,
                   engine_new_entities, engine_metrics, simulationThreadFrame>>

\* _update_digital_twins, lines 115-116: new_entities = generate_entities(10)
GenerateBatch ==
    /\ engine_pc = "generate"
    /\ \E r \in {IF Len(entities) < configured_max_entities
                 THEN generate_entities(batch_size, rng, uuid_counter, clock)
                 ELSE [value |-> <<>>, rng |-> rng, uuid |-> uuid_counter]} :
           /\ engine_new_entities' = r.value
           /\ rng' = r.rng
           /\ uuid_counter' = r.uuid
    /\ engine_idx' = 1
    /\ clock' = clock + 1
    /\ engine_pc' = "insert"
    /\ UNCHANGED <<running, current_time, entities, security_events, security_score,
                   recommendations, raised, stage_log, engine_metrics, simulationThreadFrame>>

\* line 118, once per new entity: self.entities[entity['id']] = entity; after the
\* last one the loop over self.entities.items() begins
InsertEntity ==
    /\ engine_pc = "insert"
    /\ IF engine_idx <= Len(engine_new_entities)
       THEN /\ entities' = StoreById(entities, engine_new_entities[engine_idx])
            /\ engine_idx' = engine_idx + 1
            /\ UNCHANGED <<engine_pc, stage_log>>
       ELSE /\ engine_idx' = 1
            /\ IF entities = <<>>
               THEN /\ engine_pc' = "detect"
                    /\ stage_log' = Append(stage_log, "update")
               ELSE /\ engine_pc' = "u_metrics"
                    /\ UNCHANGED stage_log
            /\ UNCHANGED entities
    /\ UNCHANGED <<running, current_time, security_events, security_score, recommendations,
                   raised, clock, rng, uuid_counter, engine_new_entities, engine_metrics,
                   simulationThreadFrame>>

\* update_entity line 192 on the entity the loop is at
UpdateMetrics ==
    /\ engine_pc = "u_metrics"
    /\ entities' = [entities EXCEPT ![engine_idx] = MetricsStep(@, rng)]
    /\ rng' = RngAt(rng, Len(MetricKeys))
    /\ engine_pc' = "u_bandwidth"
    /\ UNCHANGED <<running, current_time, security_events, security_score, recommendations,
                   raised, clock, uuid_counter, engine_idx, engine_new_entities, stage_log,
                   engine_metrics, simulationThreadFrame>>

\* _update_connectivity lines 243-251
UpdateBandwidth ==
    /\ engine_pc = "u_bandwidth"
    /\ entities' = [entities EXCEPT ![engine_idx] = BandwidthStep(@, rng)]
    /\ rng' = RngAt(rng, Len(entities[engine_idx].connectivity.connections) + 1)
    /\ engine_pc' = "u_total"
    /\ UNCHANGED <<running, current_time, security_events, security_score, recommendations,
                   raised, clock, uuid_counter, engine_idx, engine_new_entities, stage_log,
                   engine_metrics, simulationThreadFrame>>

\* _update_connectivity lines 254-256
UpdateTotal ==
    /\ engine_pc = "u_total"
    /\ entities' = [entities EXCEPT ![engine_idx] = TotalStep(@)]
    /\ engine_pc' = "u_stamp"
    /\ UNCHANGED <<running, current_time, security_events, security_score, recommendations,
                   raised, clock, rng, uuid_counter, engine_idx, engine_new_entities,
                   stage_log, engine_metrics, simulationThreadFrame>>

\* update_entity line 200
UpdateStamp ==
    /\ engine_pc = "u_stamp"
    /\ entities' = [entities EXCEPT ![engine_idx] = StampStep(@, clock)]
    /\ clock' = clock + 1
    /\ engine_pc' = "u_findings"
    /\ UNCHANGED <<running, current_time, security_events, security_score, recommendations,
                   raised, rng, uuid_counter, engine_idx, engine_new_entities, stage_log,
                   engine_metrics, simulationThreadFrame>>

\* update_entity lines 203-212 and the step of the loop to the next entity
UpdateFindings ==
    /\ engine_pc = "u_findings"
    /\ \E r \in {FindingsStep(entities[engine_idx], rng, uuid_counter)} :
           /\ entities' = [entities EXCEPT ![engine_idx] = r.value]
           /\ rng' = r.rng
           /\ uuid_counter' = r.uuid
    /\ IF engine_idx < Len(entities)
       THEN /\ engine_idx' = engine_idx + 1
            /\ engine_pc' = "u_metrics"
            /\ UNCHANGED stage_log
       ELSE /\ engine_idx' = 0
            /\ engine_pc' = "detect"
            /\ stage_log' = Append(stage_log, "update")
    /\ UNCHANGED <<running, current_time, security_events, security_score, recommendations,
                   raised, clock, engine_new_entities, engine_metrics, simulationThreadFrame>>

\* _detect_vulnerabilities
DetectVulnerabilities ==
    /\ engine_pc = "detect"
    /\ \E found \in {detect_vulnerabilities(entities)} :
           security_events' = security_events \o
               [i \in 1..Len(found) |-> Event("vulnerability", found[i], 0)]
    /\ stage_log' = Append(stage_log, "detect")
    /\ clock' = clock + 1
    /\ engine_pc' = "predict"
    /\ UNCHANGED <<running, current_time, entities, security_score, recommendations, raised,
                   rng, uuid_counter, engine_idx, engine_new_entities, engine_metrics,
                   simulationThreadFrame>>

\* _predict_attacks; an exception leaves _simulation_step through its except
\* clause, which logs it, and the tick is over
PredictAttacksStage ==
    /\ engine_pc = "predict"
    /\ \E e \in {_predict_attacks(entities, security_events, clock)} :
           /\ raised' = e
           /\ IF e = "none"
              THEN /\ stage_log' = Append(stage_log, "predict")
                   /\ engine_pc' = "evaluate"
              ELSE /\ engine_pc' = "sleep"
                   /\ UNCHANGED stage_log
    /\ clock' = clock + 1
    /\ UNCHANGED <<running, current_time, entities, security_events, security_score,
                   recommendations, rng, uuid_counter, engine_idx, engine_new_entities,
                   engine_metrics, simulationThreadFrame>>

\* _evaluate_security
EvaluateSecurityStage ==
    /\ engine_pc = "evaluate"
    /\ security_score' = evaluate_security(entities, security_events)
    /\ stage_log' = Append(stage_log, "evaluate")
    /\ engine_pc' = "enhance"
    /\ UNCHANGED <<running, current_time, entities, security_events, recommendations, raised,
                   clock, rng, uuid_counter, engine_idx, engine_new_entities, engine_metrics,
                   simulationThreadFrame>>

\* _enhance_resilience
EnhanceResilience ==
    /\ engine_pc = "enhance"
    /\ \E r \in {_enhance_resilience(entities, security_events, clock)} :
           /\ recommendations' = r.recommendations
           /\ entities' = r.entities
    /\ stage_log' = Append(stage_log, "enhance")
    /\ clock' = clock + 1
    /\ engine_pc' = "metrics"
    /\ UNCHANGED <<running, current_time, security_events, security_score, raised, rng,
                   uuid_counter, engine_idx, engine_new_entities, engine_metrics,
                   simulationThreadFrame>>

\* _update_metrics, the last stage of _simulation_step
UpdateMetricsStage ==
    /\ engine_pc = "metrics"
    /\ engine_metrics' = _update_metrics(current_time, entities, security_events)
    /\ stage_log' = Append(stage_log, "metrics")
    /\ engine_pc' = "sleep"
    /\ UNCHANGED <<running, current_time, entities, security_events, security_score,
                   recommendations, raised, clock, rng, uuid_counter, engine_idx,
                   engine_new_entities, simulationThreadFrame>>

\* time.sleep(update_interval); self.current_time += update_interval
Sleep ==
    /\ engine_pc = "sleep"
    /\ current_time' = current_time + configured_update_interval
    /\ ticks_done' = ticks_done + 1
    /\ engine_pc' = "loop"
    /\ UNCHANGED <<running, entities, security_events, security_score, recommendations,
                   raised, clock, rng, uuid_counter, engine_idx, engine_new_entities,
                   stage_log, engine_metrics, simulationThreadRest>>

dashboardThreadFrame == <<pc, entities, security_events, security_score, new_security_score,
                          recommendations, applied_count, last_rec, success, attack_scenarios,
                          raised, clock, generatorVars, detectorVars, testVars, planVars, limitVars, configVars,
                          stage_input, engine_pc, engine_idx, engine_new_entities, stage_log,
                          engine_metrics, ticks_done>>

\* finally: self.stop(), first statement: self.running = False
FinallyStop ==
    /\ engine_pc = "finally"
    /\ running' = FALSE
    /\ engine_pc' = "report"
    /\ UNCHANGED <<current_time, entities, security_events, security_score, recommendations,
                   raised, clock, rng, uuid_counter, engine_idx, engine_new_entities,
                   stage_log, engine_metrics, simulationThreadFrame>>

\* finally: self.stop(), self._generate_final_report(); run() returns
FinallyReport ==
    /\ engine_pc = "report"
    /\ reports' = reports + 1
    /\ engine_pc' = "returned"
    /\ UNCHANGED <<pc, entities, security_events, security_score, new_security_score,
                   recommendations, applied_count, last_rec, success, attack_scenarios,
                   raised, clock, generatorVars, detectorVars, testVars, planVars, limitVars, configVars,
                   stage_input, running, engine_idx, engine_new_entities, stage_log,
                   engine_metrics, ticks_done, stop_pc, stopped_at, reader_pc, reader_idx, reader_len,
                   reader_torn, reader_raised>>

\* POST /api/simulation/stop: stop(), first statement: self.running = False
StopRequest ==
    /\ stop_pc = "idle"
    /\ running' = FALSE
    /\ stopped_at' = IF engine_pc \in TickPositions THEN "tick" ELSE "between"
    /\ stop_pc' = "report"
    /\ UNCHANGED <<dashboardThreadFrame, reports, reader_pc, reader_idx, reader_len,
                   reader_torn, reader_raised>>

\* POST /api/simulation/stop: stop(), self._generate_final_report()
StopReport ==
    /\ stop_pc = "report"
    /\ reports' = reports + 1
    /\ stop_pc' = "done"
    /\ UNCHANGED <<dashboardThreadFrame, running, stopped_at, reader_pc, reader_idx,
                   reader_len, reader_torn, reader_raised>>

\* the entity is between two statements of update_entity that belong together:
\* its total is not the sum of its bandwidths, or its metrics are the new ones
\* under the old last_updated
MidUpdate(i) ==
    \/ entities[i].connectivity.total_bandwidth #
           SumSeq([j \in 1..Len(entities[i].connectivity.connections) |->
                      entities[i].connectivity.connections[j].bandwidth])
    \/ /\ engine_idx = i
       /\ engine_pc \in {"u_bandwidth", "u_total", "u_stamp"}

\* GET /api/entities: _get_entities_data, `for entity in entities.values()`, and
\* _get_network_segments_data, which iterates the dict again: the iterator is made
ReaderBegin ==
    /\ reader_pc \in {"idle", "entities_done"}
    /\ reader_len' = Len(entities)
    /\ reader_idx' = 0
    /\ reader_pc' = IF reader_pc = "idle" THEN "entities" ELSE "segments"
    /\ UNCHANGED <<dashboardThreadFrame, running, reports, stop_pc, stopped_at, reader_torn,
                   reader_raised>>

\* the iterator's next(): RuntimeError (dictionary changed size during iteration)
\* when the dict is not of the size it had, else the next entity, which the loop
\* body reads, else the end of the loop
ReaderNext ==
    /\ reader_pc \in {"entities", "segments"}
    /\ IF Len(entities) # reader_len
       THEN /\ reader_raised' = "RuntimeError"
            /\ reader_pc' = "failed"
            /\ UNCHANGED <<reader_idx, reader_torn>>
       ELSE IF reader_idx < reader_len
            THEN /\ reader_idx' = reader_idx + 1
                 /\ reader_torn' = (reader_torn \/ MidUpdate(reader_idx + 1))
                 /\ UNCHANGED <<reader_pc, reader_raised>>
            ELSE /\ reader_pc' = IF reader_pc = "entities" THEN "entities_done" ELSE "done"
                 /\ UNCHANGED <<reader_idx, reader_torn, reader_raised>>
    /\ UNCHANGED <<dashboardThreadFrame, running, reports, stop_pc, stopped_at, reader_len>>

NextEngine ==
    \/ RunBegin
    \/ LoopTest
    \/ GenerateBatch
    \/ InsertEntity
    \/ UpdateMetrics
    \/ UpdateBandwidth
    \/ UpdateTotal
    \/ UpdateStamp
    \/ UpdateFindings
    \/ DetectVulnerabilities
    \/ PredictAttacksStage
    \/ EvaluateSecurityStage
    \/ EnhanceResilience
    \/ UpdateMetricsStage
    \/ Sleep
    \/ FinallyStop
    \/ FinallyReport
    \/ StopRequest
    \/ StopReport
    \/ ReaderBegin
    \/ ReaderNext

SpecEngine == InitEngine /\ [][NextEngine]_vars

\* run() under every configured duration and update interval and a limit of
\* SmallLimit entities, nobody calling stop() from outside
InitRun ==
    /\ EngineConstructed
    /\ configured_max_entities = SmallLimit
    /\ configured_duration \in 0..MaxRunTicks
    /\ configured_update_interval \in 0..MaxInterval

NextRun ==
    \/ RunBegin
    \/ LoopTest
    \/ GenerateBatch
    \/ InsertEntity
    \/ UpdateMetrics
    \/ UpdateBandwidth
    \/ UpdateTotal
    \/ UpdateStamp
    \/ UpdateFindings
    \/ DetectVulnerabilities
    \/ PredictAttacksStage
    \/ EvaluateSecurityStage
    \/ EnhanceResilience
    \/ UpdateMetricsStage
    \/ Sleep
    \/ FinallyStop
    \/ FinallyReport

EnginePositions == {"idle", "loop", "generate", "insert", "u_metrics", "u_bandwidth",
                    "u_total", "u_stamp", "u_findings", "detect", "predict", "evaluate",
                    "enhance", "metrics", "sleep", "finally", "report", "returned"}

\* the thread that called run() has no step: run() has returned, or the loop
\* would begin a tick beyond the MaxRunTicks the model follows
RunBlocked ==
    \/ engine_pc = "returned"
    \/ /\ engine_pc = "loop"
       /\ running /\ current_time < configured_duration
       /\ ticks_done >= MaxRunTicks

\* a step of the thread, seen through its position alone: every action of
\* NextRun moves engine_pc or engine_idx
ThreadMoves ==
    /\ ~RunBlocked
    /\ engine_pc' \in EnginePositions
    /\ engine_idx' \in 0..(Len(entities) + batch_size + 1)

\* the thread that called run() keeps running: it takes its next step whenever
\* it has one
SpecRun == InitRun /\ [][NextRun]_vars /\ WF_<<engine_pc, engine_idx>>(ThreadMoves)

-----------------------------------------------------------------------------
(* Properties *)

ScoreWithinRange(score) == FracLE(Int2Frac(0), score) /\ FracLE(score, Int2Frac(100))

\* C1: whatever the entity map and the event list, every score that
\* evaluate_security returns lies between 0 and 100.
C1_ScoreBetween0And100 ==
    /\ pc \in {"scored", "recommended", "done"} => ScoreWithinRange(security_score)
    /\ pc = "done" => ScoreWithinRange(new_security_score)

\* C1 witness: a score was computed for a non-empty map and the risk
\* adjustment brought it down to the lower end of the range.
C1_Witness ==
    /\ pc = "scored"
    /\ Len(entities) > 0
    /\ Len(security_events) > 0
    /\ security_score = Int2Frac(0)

\* C2: evaluate_security on an empty entity map returns exactly 0.
C2_EmptyMapScoresZero ==
    (pc = "scored" /\ entities = <<>>) => FracEQ(security_score, Int2Frac(0))

ReachedAnEntity(rec) ==
    /\ "target_entity" \in DOMAIN rec
    /\ IF rec.target_entity = "system_wide" THEN Len(entities) > 0
       ELSE EntityIndex(entities, rec.target_entity) # {}

\* the failures inside apply_recommendation: a key the code reads is missing
InternalFailure(rec) ==
    \/ "target_entity" \notin DOMAIN rec
    \/ ReachedAnEntity(rec) /\ "type" \notin DOMAIN rec

\* C4: apply_recommendation never raises and returns a boolean; it returns
\* False exactly on an internal failure, leaving status 'failed' and the
\* error text, and otherwise returns True with status 'applied' and applied_at.
C4_ApplyReportsFailureByStatus ==
    last_rec # NoRecommendation =>
        /\ raised = "none"
        /\ success \in BOOLEAN
        /\ success = ~InternalFailure(last_rec)
        /\ ~success => ("error" \in DOMAIN last_rec /\ last_rec.status = "failed")
        /\ success => ("applied_at" \in DOMAIN last_rec /\ last_rec.status = "applied")

\* C4 witness: a minimal recommendation without a type was applied
\* system-wide to a non-empty map and the call reported the failure.
C4_Witness ==
    /\ pc = "tested"
    /\ DOMAIN last_rec = {"id", "target_entity", "status", "error"}
    /\ last_rec.status = "failed"
    /\ Len(entities) > 0
    /\ ~success

\* C5: after apply_recommendation of a catalogued type on an entity of the
\* map, that entity's security_config field mapped to the type holds the
\* enabled value (encryption -> encryption_enabled = True, ...,
\* patch_management -> 'automatic') and the recommendation is 'applied'.
C5_ApplySetsMappedField ==
    (/\ last_rec # NoRecommendation
     /\ "type" \in DOMAIN last_rec
     /\ "target_entity" \in DOMAIN last_rec
     /\ last_rec.type \in Range(RecTypes)
     /\ EntityIndex(entities, last_rec.target_entity) # {})
    => /\ last_rec.status = "applied"
       /\ \A i \in EntityIndex(entities, last_rec.target_entity) :
            LET field == CASE last_rec.type = "encryption" -> "encryption_enabled"
                           [] last_rec.type = "authentication" -> "authentication_required"
                           [] last_rec.type = "firewall" -> "firewall_enabled"
                           [] last_rec.type = "patch_management" -> "patch_management"
                           [] last_rec.type = "vulnerability_scanning" -> "vulnerability_scanning"
                           [] last_rec.type = "network_isolation" -> "network_isolation"
                           [] last_rec.type = "audit_logging" -> "audit_logging"
                           [] last_rec.type = "backup_security" -> "backup_enabled"
            IN  /\ field \in DOMAIN entities[i].security_config
                /\ entities[i].security_config[field] =
                       (IF field = "patch_management" THEN "automatic" ELSE TRUE)

\* C5 witness: a backup_security recommendation was applied to the first
\* entity of the map, which has no other control enabled (so backup was
\* disabled before), and a second entity was left as it was.
C5_Witness ==
    /\ pc = "tested"
    /\ "type" \in DOMAIN last_rec
    /\ "target_entity" \in DOMAIN last_rec
    /\ last_rec.type = "backup_security"
    /\ Len(entities) = 2
    /\ last_rec.target_entity = entities[1].id
    /\ entities[1].security_config = [ConfigAllOff EXCEPT !.backup_enabled = TRUE]
    /\ entities[2].security_config = ConfigAllOff

\* the recommendations of the list that target the entity
TargetingEntity(recs, id) == SelectWhere(recs, LAMBDA r : r.target_entity = id)

EveryControlDisabled(e) == e.security_config = ConfigAllOff

\* C7 as stated: an entity with every control disabled gets at least 8
\* recommendations targeting it, and network_isolation as well when its
\* criticality is high.
C7_AtLeastEightPerDisabledEntity ==
    (pc = "recommended" /\ applied_count = 0) =>
        \A i \in 1..Len(entities) :
            EveryControlDisabled(entities[i]) =>
                /\ Len(TargetingEntity(recommendations, entities[i].id)) >= 8
                /\ entities[i].criticality = "high" =>
                     \E r \in Range(TargetingEntity(recommendations, entities[i].id)) :
                         r.type = "network_isolation"

\* C7 amended: an entity with every control disabled gets exactly one
\* recommendation per template other than network_isolation (7), and gets
\* the network_isolation one exactly when its criticality is high (8).
C7_OnePerTemplateIsolationIfHigh ==
    (pc = "recommended" /\ applied_count = 0) =>
        \A i \in 1..Len(entities) :
            EveryControlDisabled(entities[i]) =>
                LET own == TargetingEntity(recommendations, entities[i].id)
                    expected == IF entities[i].criticality = "high"
                                THEN Range(RecTypes)
                                ELSE Range(RecTypes) \ {"network_isolation"}
                IN  /\ {own[k].type : k \in 1..Len(own)} = expected
                    /\ Len(own) = Cardinality(expected)

\* C7 witness: recommendations were generated for a map holding an entity
\* with every control disabled and medium criticality, and one with high.
C7_Witness ==
    /\ pc = "recommended"
    /\ applied_count = 0
    /\ \E i, j \in 1..Len(entities) :
         /\ EveryControlDisabled(entities[i]) /\ entities[i].criticality = "medium"
         /\ EveryControlDisabled(entities[j]) /\ entities[j].criticality = "high"

\* C8: every scenario predict_attacks returns has probability and
\* impact_score in [0,1], at most 5 targets, and risk_score equal to
\* probability times impact_score.
C8_ScenarioRanges ==
    (pc = "predicted" /\ raised = "none") =>
        \A i \in 1..Len(attack_scenarios) :
            LET sc == attack_scenarios[i]
            IN  /\ FracLE(Int2Frac(0), sc.probability) /\ FracLE(sc.probability, Int2Frac(1))
                /\ FracLE(Int2Frac(0), sc.impact_score) /\ FracLE(sc.impact_score, Int2Frac(1))
                /\ Len(sc.targets) <= 5
                /\ FracEQ(sc.risk_score, FracMul(sc.probability, sc.impact_score))

\* C8 witness: in one prediction over more than 5 matching entities, one
\* scenario has its probability capped at 1 and one has 5 targets and its
\* impact capped at 1.
C8_Witness ==
    /\ pc = "predicted"
    /\ raised = "none"
    /\ Len(entities) > 5
    /\ \E i, j \in 1..Len(attack_scenarios) :
         /\ attack_scenarios[i].probability = Int2Frac(1)
         /\ Len(attack_scenarios[j].targets) = 5
         /\ attack_scenarios[j].impact_score = Int2Frac(1)
         /\ attack_scenarios[j].risk_score.num > 0

PairwiseDistinct(ids) ==
    \A i, j \in 1..Len(ids) : i # j => ids[i] # ids[j]

\* C6: generate_entities(n) returns exactly n entities, each of one of the
\* five types, with pairwise different ids; the ids stay different over all
\* the calls of a simulation, so storing the new entities by id never
\* overwrites an entity of the map.
C6_GeneratedIdsUnique ==
    /\ pc = "generated" =>
          /\ Len(generated) = requested
          /\ \A i \in 1..Len(generated) : generated[i].type \in Range(EntityTypes)
          /\ PairwiseDistinct([i \in 1..Len(generated) |-> generated[i].id])
    /\ PairwiseDistinct(issued_ids)
    /\ Len(entities) = inserted
    /\ \A i \in 1..Len(entities) : entities[i].type \in Range(EntityTypes)

\* C6 witness: a test asked for the largest count and got entities of
\* different types, and the engine then stored two batches in its map.
C6_Witness ==
    /\ pc = "generated"
    /\ requested = MaxCount
    /\ Len(generated) = MaxCount
    /\ \E i, j \in 1..Len(generated) : generated[i].type # generated[j].type
    /\ current_time >= 2
    /\ inserted >= 2 * batch_size
    /\ Len(entities) = inserted

\* the steps of the last call: nothing is scored before the fit
TrainsBeforeScoring(log) ==
    /\ Len(log) >= 2
    /\ log[1] = "train"
    /\ log[2] = "fit"
    /\ \A i \in 1..Len(log) : log[i] = "score" => i > 2

\* C9 as stated: detect_anomalies on an untrained detector first trains on
\* the population it is given and then scores; it returns a list without an
\* error for every population, the empty one included, and leaves the
\* detector trained.
C9_LazyTrainAlwaysTrains ==
    (pc = "detected" /\ ~was_trained) =>
        /\ raised = "none"
        /\ is_trained
        /\ TrainsBeforeScoring(detector_log)

\* C9 amended: for a non-empty population the untrained detector is fitted
\* on that population before any entity is scored and is trained on return;
\* for the empty population the call returns the empty list and leaves the
\* detector untrained; in both cases no error leaves the call.
C9_LazyTrainUnlessEmpty ==
    (pc = "detected" /\ ~was_trained) =>
        /\ raised = "none"
        /\ entities # <<>> =>
              /\ is_trained
              /\ fitted_on = FeatureMatrix(entities)
              /\ TrainsBeforeScoring(detector_log)
              /\ Len(SelectSeq(detector_log, LAMBDA step : step = "score")) = Len(entities)
        /\ entities = <<>> =>
              /\ ~is_trained
              /\ fitted_on = <<>>
              /\ anomalies = <<>>
              /\ detector_log = <<"train">>

\* C9 witness: an untrained detector was given two entities, fitted itself
\* on them and reported one of them as an anomaly.
C9_Witness ==
    /\ pc = "detected"
    /\ ~was_trained
    /\ is_trained
    /\ Len(entities) = 2
    /\ Len(anomalies) = 1
    /\ fitted_on = FeatureMatrix(entities)

\* C10: predict_attacks, evaluate_security and generate_recommendations
\* never let an exception cross their interface.
C10_NoExceptionCrossesInterface ==
    pc \in {"predicted", "scored", "recommended", "done"} => raised = "none"

-----------------------------------------------------------------------------
(* Config                                                                   *)
(*                                                                          *)
(* A key is a string; the model writes it as the sequence of its pieces,    *)
(* "." being a piece of its own: <<"dashboard", ".", "port">> is            *)
(* 'dashboard.port'.  A dict maps key strings (the pieces between dots) to  *)
(* values; a value is a dict or a leaf (a number, a string, None), the leaf *)
(* carrying the literal as written in Python.                               *)

MaxKeyLen == 3        \* pieces in a key passed to Config.get / Config.set
MaxConfigOps == 2     \* Config.get / Config.set calls on one Config object

Leaf(v) == [kind |-> "leaf", v |-> v]
Dict(items) == [kind |-> "dict", items |-> items]

EmptyItems == [k \in {} |-> None]

\* _get_default_config: the sections and keys the modelled key pieces can name
\* (and one more of each, which they cannot)
_get_default_config ==
    Dict([k \in {<<"dashboard">>, <<"simulation">>} |->
            IF k = <<"dashboard">>
            THEN Dict([j \in {<<"host">>, <<"port">>} |->
                         IF j = <<"host">> THEN Leaf("'localhost'") ELSE Leaf("5000")])
            ELSE Dict([j \in {<<"duration">>} |-> Leaf("3600")])])

\* key.split('.')
RECURSIVE Split(_)
Split(key) ==
    IF \A i \in 1..Len(key) : key[i] # "." THEN <<key>>
    ELSE LET dot == CHOOSE i \in 1..Len(key) :
                        key[i] = "." /\ \A j \in 1..(i - 1) : key[j] # "."
         IN  <<SubSeq(key, 1, dot - 1)>> \o Split(SubSeq(key, dot + 1, Len(key)))

\* the loop of Config.get over keys, from value
RECURSIVE GetFrom(_, _, _)
GetFrom(value, keys, default) ==
    IF keys = <<>> THEN value
    ELSE IF value.kind = "dict" /\ Head(keys) \in DOMAIN value.items
         THEN GetFrom(value.items[Head(keys)], Tail(keys), default)
         ELSE default

ConfigGet(data, key, default) == GetFrom(data, Split(key), default)

\* the loop of Config.set over keys[:-1] and the final assignment, from the
\* dict (or other value) node: `k not in config`, config[k] = {} and
\* config[keys[-1]] = value raise TypeError when config is not a dict
RECURSIVE SetFrom(_, _, _)
SetFrom(node, keys, value) ==
    IF node.kind # "dict" THEN [node |-> node, raised |-> "TypeError"]
    ELSE IF Len(keys) = 1
         THEN [node |-> Dict(DictSet(node.items, keys[1], value)), raised |-> "none"]
         ELSE LET k == Head(keys)
                  child == IF k \in DOMAIN node.items THEN node.items[k] ELSE Dict(EmptyItems)
              IN  With(SetFrom(child, Tail(keys), value), LAMBDA below :
                       IF below.raised # "none" THEN [node |-> node, raised |-> below.raised]
                       ELSE [node |-> Dict(DictSet(node.items, k, below.node)),
                             raised |-> "none"])

ConfigSet(data, key, value) == SetFrom(data, Split(key), value)

KeyPieces == {"dashboard", "port", "."}

ConfigKeys == UNION {[1..n -> KeyPieces] : n \in 0..MaxKeyLen}

ConfigValues == {Leaf("123"), Dict(EmptyItems)}

ConfigDefaults == {Leaf("None"), Leaf("0")}

\* Config(): no file at config_path, the default configuration
InitConfig ==
    /\ pc = "config"
    /\ entities = <<>>
    /\ security_events = <<>>
    /\ security_score = NoScore
    /\ new_security_score = NoScore
    /\ recommendations = <<>>
    /\ applied_count = 0
    /\ last_rec = NoRecommendation
    /\ success = FALSE
    /\ attack_scenarios = <<>>
    /\ raised = "none"
    /\ clock = 1
    /\ GeneratorIdle
    /\ DetectorIdle
    /\ UpdateTestIdle
    /\ PlanIdle
    /\ LimitDefault
    /\ RunDefault
    /\ EngineIdle
    /\ stage_input = NoInput
    /\ config_data = _get_default_config
    /\ config_key = <<>>
    /\ config_value = Leaf("None")
    /\ config_got = Leaf("None")
    /\ config_raised = "none"
    /\ config_ops = 0

notConfigVars == <<entities, security_events, security_score, new_security_score,
                   recommendations, applied_count, last_rec, success, attack_scenarios,
                   raised, clock, generatorVars, detectorVars, testVars, planVars, limitVars, engineVars,
                   stage_input>>

\* test_config_set_get: self.config.set(key, value)
SetValue ==
    /\ pc \in {"config", "set", "got", "got_back"}
    /\ config_raised = "none"
    /\ config_ops < MaxConfigOps
    /\ \E key \in ConfigKeys, value \in ConfigValues :
         \E r \in {ConfigSet(config_data, key, value)} :
             /\ config_data' = r.node
             /\ config_raised' = r.raised
             /\ config_key' = key
             /\ config_value' = value
    /\ config_ops' = config_ops + 1
    /\ pc' = "set"
    /\ UNCHANGED <<config_got, notConfigVars>>

\* test_config_set_get: self.config.get(key) with the key just set
GetValueBack ==
    /\ pc = "set"
    /\ config_raised = "none"
    /\ \E default \in ConfigDefaults :
           config_got' = ConfigGet(config_data, config_key, default)
    /\ pc' = "got_back"
    /\ UNCHANGED <<config_data, config_key, config_value, config_raised, config_ops,
                   notConfigVars>>

\* self.config.get(key, default), any key
GetValue ==
    /\ pc \in {"config", "set", "got", "got_back"}
    /\ config_raised = "none"
    /\ config_ops < MaxConfigOps
    /\ \E key \in ConfigKeys, default \in ConfigDefaults :
           /\ config_got' = ConfigGet(config_data, key, default)
           /\ config_key' = key
           /\ config_value' = default
    /\ config_ops' = config_ops + 1
    /\ pc' = "got"
    /\ UNCHANGED <<config_data, config_raised, notConfigVars>>

NextConfig ==
    \/ SetValue
    \/ GetValueBack
    \/ GetValue

SpecConfig == InitConfig /\ [][NextConfig]_vars

-----------------------------------------------------------------------------
(* Frame of the analysis stages *)

\* C12: after predict_attacks, evaluate_security, generate_recommendations or
\* detect_anomalies returns, the entity map (every field of every entity) and
\* the event list are what they were when the call began.
C12_ReadOnlyStagesKeepInputs ==
    (\/ pc \in {"predicted", "scored", "done", "detected"}
     \/ pc = "recommended" /\ applied_count = 0)
    => /\ entities = stage_input.entities
       /\ security_events = stage_input.security_events

\* detect_anomalies trained lazily on a population and reported an anomaly
C12_Witness ==
    /\ pc = "detected"
    /\ ~was_trained
    /\ is_trained
    /\ anomalies # <<>>
    /\ entities = stage_input.entities
    /\ Len(entities) = MaxEntities

-----------------------------------------------------------------------------
(* Frame of apply_recommendation *)

\* the security_config key a recommendation type stands for, "none" if it has none
MappedControl(rec) ==
    IF "type" \notin DOMAIN rec THEN "none"
    ELSE CASE rec.type = "encryption" -> "encryption_enabled"
           [] rec.type = "authentication" -> "authentication_required"
           [] rec.type = "firewall" -> "firewall_enabled"
           [] rec.type = "patch_management" -> "patch_management"
           [] rec.type = "vulnerability_scanning" -> "vulnerability_scanning"
           [] rec.type = "network_isolation" -> "network_isolation"
           [] rec.type = "audit_logging" -> "audit_logging"
           [] rec.type = "backup_security" -> "backup_enabled"
           [] OTHER -> "none"

\* a step in which apply_recommendation was called
ApplyCalled ==
    \/ pc = "start" /\ pc' = "tested"
    \/ applied_count' = applied_count + 1

\* what the call, made with recommendation rec, did to the entity before -> after
AppliedWithinFrame(rec, before, after) ==
    LET targeted == /\ "target_entity" \in DOMAIN rec
                    /\ rec.target_entity \in {"system_wide", before.id}
        control == MappedControl(rec)
    IN  /\ DOMAIN after = DOMAIN before
        /\ \A f \in DOMAIN before \ {"security_config", "last_updated"} : after[f] = before[f]
        /\ DOMAIN after.security_config = DOMAIN before.security_config
        /\ \A c \in DOMAIN before.security_config \ {control} :
               after.security_config[c] = before.security_config[c]
        /\ ~targeted => after = before
        /\ (targeted /\ rec.status = "applied" /\ control # "none") =>
               after.security_config[control] =
                   (IF control = "patch_management" THEN "automatic" ELSE TRUE)

-----------------------------------------------------------------------------
(* Order of the recommendation list *)

PriorityOrdinal == [low |-> 1, medium |-> 2, high |-> 3, critical |-> 4]
ImpactOrdinal == [low |-> 1, medium |-> 2, high |-> 3]
EffortReward == [low |-> 3, medium |-> 2, high |-> 1]

ClaimedPriorityScore(rec) ==
    PriorityOrdinal[rec.priority] * ImpactOrdinal[rec.impact] * EffortReward[rec.effort]

\* the type and target of each recommendation of a list
TypeAndTarget(recs) ==
    [i \in 1..Len(recs) |-> <<recs[i].type, recs[i].target_entity>>]

\* the list as generated, before it is sorted: the recommendations of each
\* entity in entity-map order, then the system-wide ones
GenerationOrder(ents, events) ==
    Flatten([i \in 1..Len(ents) |-> _generate_entity_recommendations(ents[i], 0)])
    \o _generate_system_recommendations(_analyze_security_posture(ents, events), 0)

-----------------------------------------------------------------------------
(* Order of the scenario list *)

\* position of a name in a catalog
CatalogIndex(catalog, name) == CHOOSE i \in 1..Len(catalog) : catalog[i].name = name

\* scenario a is generated before scenario b: archetype order, then actor order
GeneratedBefore(a, b) ==
    LET arch_a == CatalogIndex(attack_types, a.type)
        arch_b == CatalogIndex(attack_types, b.type)
    IN  \/ arch_a < arch_b
        \/ /\ arch_a = arch_b
           /\ CatalogIndex(threat_actors, a.threat_actor) < CatalogIndex(threat_actors, b.threat_actor)

-----------------------------------------------------------------------------
(* vulnerability_density *)

\* number of vulnerabilities of the map that are not mitigated
OpenVulnerabilities(ents) ==
    SumSeq([i \in 1..Len(ents) |->
              CountWhere(ents[i].vulnerabilities, LAMBDA v : v.status # "mitigated")])

\* C20: vulnerability_density is the number of open vulnerabilities of all
\* entities (mitigated ones not counted) divided by the entity count, and 0
\* for an empty map.
C20_DensityCountsOpenOnly ==
    (pc = "predicted") =>
        FracEQ(_calculate_vulnerability_density(entities),
               IF entities = <<>> THEN Int2Frac(0)
               ELSE Frac(OpenVulnerabilities(entities), Len(entities)))

-----------------------------------------------------------------------------
(* Entity updates *)

Within(value, lo, hi) == FracLE(Int2Frac(lo), value) /\ FracLE(value, Int2Frac(hi))

MetricsInRange(metrics) ==
    /\ \A key \in {"cpu_usage", "memory_usage", "network_usage", "disk_usage"} :
           Within(metrics[key], 0, 100)
    /\ Within(metrics.error_rate, 0, 1)
    /\ FracLE(Int2Frac(0), metrics.response_time)
    /\ Within(metrics.uptime, 0, 1)

\* every entity generate_entities returned, the engine stored or update_entity returned
EntitiesSeen ==
    Range(generated) \cup Range(entities)
    \cup (IF updated_entity = NoEntity THEN {} ELSE {updated_entity})

\* C13: after creation and after any number of update_entity calls every
\* performance metric is inside its range: the usages in [0,100], error_rate
\* in [0,1], response_time >= 0 and uptime in [0,1].
C13_MetricsStayInRange ==
    \A e \in EntitiesSeen : MetricsInRange(e.performance_metrics)

\* C14: after updated = update_entity(original), original['last_updated']
\* differs from updated['last_updated'] (the caller's original is not
\* overwritten) and updated carries performance_metrics.
C14_UpdateLeavesOriginal ==
    (pc = "updated") =>
        /\ original_entity.last_updated # updated_entity.last_updated
        /\ "performance_metrics" \in DOMAIN updated_entity

-----------------------------------------------------------------------------
(* Config round trip *)

\* the path of key strings leads through dicts to a value
RECURSIVE PathPresent(_, _)
PathPresent(value, keys) ==
    \/ keys = <<>>
    \/ /\ value.kind = "dict"
       /\ Head(keys) \in DOMAIN value.items
       /\ PathPresent(value.items[Head(keys)], Tail(keys))

\* C16: for every dotted key k and value v, set(k, v) succeeds and a get(k)
\* after it returns v; get of a key path absent from the configuration
\* returns the supplied default.
C16_ConfigRoundTrip ==
    /\ config_raised = "none"
    /\ (pc = "got_back") => config_got = config_value
    /\ (pc = "got" /\ ~PathPresent(config_data, Split(config_key))) => config_got = config_value

-----------------------------------------------------------------------------
(* Readers of the entity map *)

\* C11: a reader of the entity map that runs while the simulation thread updates
\* it is never handed an entity that is mid-update (total_bandwidth not the sum
\* of the bandwidths, new metrics under the old last_updated) and never fails
\* because the map changed during its read.
C11_ReaderSeesNoTornEntity ==
    /\ ~reader_torn
    /\ reader_raised = "none"

-----------------------------------------------------------------------------
(* Stopping the simulation *)

\* the dashboard's stop() came while a tick was in flight, and that tick is over
StoppedTickOver ==
    /\ stopped_at = "tick"
    /\ engine_pc \in {"sleep", "loop", "finally", "report", "returned"}

\* a tick begins: the loop test lets the thread into _simulation_step
TickBegins == engine_pc = "loop" /\ engine_pc' = "generate"

\* C15: stop() only ceases scheduling: with running false no tick begins, the tick
\* in flight when the dashboard calls stop() runs every stage to its end, and
\* run() returns only after a final report was generated.
C15_StopOnlyCeasesScheduling ==
    /\ [][TickBegins => running]_vars
    /\ [](StoppedTickOver => stage_log = AllStages)
    /\ [](engine_pc = "returned" => ~running /\ reports >= 1)

-----------------------------------------------------------------------------
(* System-wide recommendations *)

\* the entity has the control a recommendation type stands for
Covers(e, rec_type) ==
    IF rec_type = "patch_management" THEN Setting(e, "patch_management") # "none"
    ELSE Enabled(e, TypeToField[rec_type][1])

\* fewer than half of the entities have the control
CoverageBelowHalf(ents, rec_type) ==
    /\ Len(ents) > 0
    /\ 2 * Cardinality({i \in 1..Len(ents) : Covers(ents[i], rec_type)}) < Len(ents)

SystemWideOfType(recs, rec_type) ==
    SelectWhere(recs, LAMBDA r : r.target_entity = "system_wide" /\ r.type = rec_type)

\* C21: for every security control that fewer than half of the entities have,
\* the list generate_recommendations returns holds exactly one system-wide
\* recommendation of that control's type, whichever control it is.
C21_OneSystemWidePerUncoveredControl ==
    (pc = "recommended" /\ applied_count = 0) =>
        \A t \in Range(RecTypes) :
            CoverageBelowHalf(stage_input.entities, t) =>
                Len(SystemWideOfType(recommendations, t)) = 1

-----------------------------------------------------------------------------
(* Improvement plan *)

StrategyCatalog == {improvement_strategies[k] : k \in DOMAIN improvement_strategies}

PlanTypes == {improvement_plan.recommendations[i].type :
                 i \in 1..Len(improvement_plan.recommendations)}

\* C22 as stated: the plan lists between 1 and 4 strategies of the catalog.
C22_OneToFourStrategies ==
    (pc = "planned") =>
        /\ Len(improvement_plan.strategies) \in 1..4
        /\ Range(improvement_plan.strategies) \subseteq StrategyCatalog

\* C22 amended: the plan lists between 0 and 3 strategies of the catalog, without
\* repetition: zero_trust exactly when recommendations of type encryption and of
\* type authentication are both present, defense_in_depth exactly when one of
\* type network_isolation is, threat_hunting exactly when one of type
\* vulnerability_scanning is, in this order; security_automation is never listed.
C22_ZeroToThreeStrategiesByType ==
    (pc = "planned") =>
        LET strategies == improvement_plan.strategies
            names == [i \in 1..Len(strategies) |-> strategies[i].name]
            Listed(name) == \E i \in 1..Len(names) : names[i] = name
            Position(name) == CHOOSE i \in 1..Len(names) : names[i] = name
        IN  /\ Len(strategies) \in 0..3
            /\ Range(strategies) \subseteq StrategyCatalog
            /\ \A i, j \in 1..Len(names) : names[i] = names[j] => i = j
            /\ Listed("zero_trust") <=> ("encryption" \in PlanTypes /\ "authentication" \in PlanTypes)
            /\ Listed("defense_in_depth") <=> "network_isolation" \in PlanTypes
            /\ Listed("threat_hunting") <=> "vulnerability_scanning" \in PlanTypes
            /\ ~Listed("security_automation")
            /\ (Listed("zero_trust") /\ Listed("defense_in_depth")) =>
                   Position("zero_trust") < Position("defense_in_depth")
            /\ (Listed("defense_in_depth") /\ Listed("threat_hunting")) =>
                   Position("defense_in_depth") < Position("threat_hunting")
            /\ (Listed("zero_trust") /\ Listed("threat_hunting")) =>
                   Position("zero_trust") < Position("threat_hunting")

\* a plan for a map of two entities that lists no strategy
C22_Witness ==
    /\ pc = "planned"
    /\ Len(entities) = 2
    /\ improvement_plan.current_state.entity_count = 2
    /\ improvement_plan.strategies = <<>>

-----------------------------------------------------------------------------
(* Training the anomaly detector *)

\* C23 as stated: when train returns the detector is trained, and scaler and
\* model are fitted on the population passed, whatever that population is.
C23_TrainAlwaysFits ==
    (pc = "trained") =>
        /\ is_trained
        /\ fitted_on = FeatureMatrix(entities)

\* C23 amended: when train returns from a population that is not empty, the
\* detector is trained and scaler and model are fitted on that population; a
\* later detect_anomalies on a trained detector does not fit again and leaves
\* the detector trained.  train on the empty population returns at once and
\* leaves the detector as it was.
C23_TrainFitsUnlessEmpty ==
    /\ []((pc = "trained" /\ entities # <<>>) =>
             /\ is_trained
             /\ fitted_on = FeatureMatrix(entities)
             /\ detector_log = <<"train", "fit", "save">>)
    /\ [][(pc' = "trained" /\ entities' = <<>>) =>
             /\ is_trained' = is_trained
             /\ fitted_on' = fitted_on
             /\ detector_log' = <<"train">>]_vars
    /\ [][(is_trained /\ pc' = "detected") =>
             /\ is_trained'
             /\ fitted_on' = fitted_on
             /\ \A i \in 1..Len(detector_log') : detector_log'[i] = "score"]_vars

\* train has returned from a population of two entities
C23_Witness ==
    /\ pc = "trained"
    /\ Len(entities) = 2
    /\ is_trained
    /\ fitted_on = FeatureMatrix(entities)
    /\ detector_log = <<"train", "fit", "save">>

-----------------------------------------------------------------------------
(* Target selection on generated populations *)

\* every entity type of the population is one of the five generated tags
GeneratedTypesOnly(ents) ==
    \A i \in 1..Len(ents) : ents[i].type \in Range(EntityTypes)

\* C24: for a population whose entity types are among the five generated tags
\* no archetype tag occurs as a substring of an entity type, so every scenario
\* returned by predict_attacks has an empty targets list, impact_score 0 and
\* risk_score 0, and the scenarios are returned in their generation order.
C24_GeneratedTypesNeverTargeted ==
    (pc = "predicted" /\ raised = "none" /\ GeneratedTypesOnly(stage_input.entities)) =>
        /\ \A a \in 1..Len(attack_types) :
               \A target \in Range(attack_types[a].targets) :
                   \A i \in 1..Len(stage_input.entities) :
                       ~IsSubstring(target, stage_input.entities[i].type)
        /\ \A k \in 1..Len(attack_scenarios) :
               /\ attack_scenarios[k].targets = <<>>
               /\ FracEQ(attack_scenarios[k].impact_score, Int2Frac(0))
               /\ FracEQ(attack_scenarios[k].risk_score, Int2Frac(0))
        /\ \A i, j \in 1..Len(attack_scenarios) :
               i < j => GeneratedBefore(attack_scenarios[i], attack_scenarios[j])

\* scenarios were predicted for a generated population holding three entities
\* of three different generated types
C24_Witness ==
    /\ pc = "predicted"
    /\ raised = "none"
    /\ Len(stage_input.entities) = 3
    /\ GeneratedTypesOnly(stage_input.entities)
    /\ Cardinality({stage_input.entities[i].type : i \in 1..3}) = 3
    /\ Len(attack_scenarios) > 1
    /\ \A k \in 1..Len(attack_scenarios) : attack_scenarios[k].targets = <<>>

-----------------------------------------------------------------------------
(* The stages of a tick *)

\* stage_log lists the first stages of AllStages, in their order
StagesInOrder == 
    /\ Len(stage_log) <= Len(AllStages)
    /\ stage_log = SubSeq(AllStages, 1, Len(stage_log))

\* C25: every tick runs its six stages in the fixed order and runs all of
\* them: when the simulation thread reaches the sleep that ends a tick, all
\* six stages have completed in order, the attack-prediction stage raised
\* nothing, the security score was evaluated in the tick and the metrics
\* carry the tick's time.
C25_EveryTickRunsAllSixStages ==
    /\ StagesInOrder
    /\ engine_pc = "sleep" =>
           /\ stage_log = AllStages
           /\ raised = "none"
           /\ security_score # NoScore
           /\ engine_metrics # NoMetrics
           /\ engine_metrics.current_time = current_time

-----------------------------------------------------------------------------
(* The size of the entity map *)

\* the ids of an entity map
IdsOf(ents) == {ents[i].id : i \in 1..Len(ents)}

\* a tick that begins below the limit adds exactly one batch of 10 entities, a
\* tick that begins at or above it adds none, and no tick removes an entity
GrowthPerTick ==
    [][current_time' = current_time + 1 =>
          /\ IdsOf(entities) \subseteq IdsOf(entities')
          /\ Len(entities') = IF Len(entities) < configured_max_entities
                              THEN Len(entities) + batch_size
                              ELSE Len(entities)]_vars

\* C26: the entity map never holds more entities than the configured
\* simulation.max_entities, for every configured value; below the limit the
\* map grows by exactly 10 entities per tick and entities are never removed.
C26_EntityCountWithinLimit ==
    /\ [](Len(entities) <= configured_max_entities)
    /\ GrowthPerTick

-----------------------------------------------------------------------------
(* apply_recommendation on a target that is not in the map *)

\* the recommendation names a target that is neither 'system_wide' nor the id
\* of an entity of the map
TargetMissing(recommendation, ents) ==
    /\ "target_entity" \in DOMAIN recommendation
    /\ recommendation.target_entity # "system_wide"
    /\ EntityIndex(ents, recommendation.target_entity) = {}

\* C27: apply_recommendation reports success only when it changed something:
\* when the target_entity is neither 'system_wide' nor the id of an entity in
\* the map, no entity is mutated and the call does not return True with
\* status 'applied'.
C27_NoSuccessWithoutTarget ==
    [][(pc' = "tested" /\ TargetMissing(last_rec', entities)) =>
          /\ entities' = entities
          /\ ~(success' /\ last_rec'.status = "applied")]_vars

-----------------------------------------------------------------------------
(* The recommend/apply loop *)

\* rec is emitted again: the second list holds a recommendation of its type
\* for its target
EmittedAgain(rec) ==
    \E k \in 1..Len(second_recommendations) :
        /\ second_recommendations[k].type = rec.type
        /\ second_recommendations[k].target_entity = rec.target_entity

\* C28: after every recommendation returned by generate_recommendations has
\* been applied, a second generate_recommendations on the same map and events
\* returns an empty list; no per-entity or system-wide recommendation that was
\* applied is emitted again.
C28_RecommendApplyFixedPoint ==
    pc = "regenerated" =>
        /\ second_recommendations = <<>>
        /\ \A i \in 1..Len(recommendations) : ~EmittedAgain(recommendations[i])

\* the per-entity part of C28: no recommendation applied to one entity is
\* emitted again for that entity
PerEntityFixedPoint ==
    pc = "regenerated" =>
        \A i \in 1..Len(recommendations) :
            recommendations[i].target_entity # "system_wide" => ~EmittedAgain(recommendations[i])

-----------------------------------------------------------------------------
(* The frame of update_entity *)

\* old is a prefix of new, and new holds at most one record more
GrowsByAtMostOne(old, new) ==
    /\ Len(old) <= Len(new)
    /\ Len(new) <= Len(old) + 1
    /\ SubSeq(new, 1, Len(old)) = old

\* what one update_entity call leaves alone, before against after
UpdateFrame(before, after) ==
    /\ \A field \in {"id", "type", "name", "criticality", "security_level",
                     "network_segment", "security_config"} :
           after[field] = before[field]
    /\ Len(after.connectivity.connections) = Len(before.connectivity.connections)
    /\ GrowsByAtMostOne(before.vulnerabilities, after.vulnerabilities)
    /\ GrowsByAtMostOne(before.threat_indicators, after.threat_indicators)

\* C29: update_entity leaves id, type, name, criticality, security_level,
\* network_segment and security_config as they were and keeps the number of
\* connections; vulnerabilities and threat_indicators only grow, by at most one
\* record per call, their existing records kept as they were.  Checked on the
\* single call of test_update_entity and on the one call per entity a tick of
\* _update_digital_twins makes.
C29_UpdateEntityFrame ==
    /\ [][pc' = "updated" => UpdateFrame(generated[1], generated'[1])]_vars
    /\ [][current_time' = current_time + 1 =>
             \A i \in 1..Len(entities) : UpdateFrame(entities[i], entities'[i])]_vars

\* an update call has appended a vulnerability and changed the connectivity
\* of the entity it was given
C29_Witness ==
    /\ pc = "updated"
    /\ stage_input.entities # <<>>
    /\ updated_entity.id = stage_input.entities[1].id
    /\ Len(updated_entity.vulnerabilities) = Len(stage_input.entities[1].vulnerabilities) + 1
    /\ updated_entity.connectivity # stage_input.entities[1].connectivity

-----------------------------------------------------------------------------
(* Termination of run *)

\* ceil(duration / update_interval), no tick for a duration that is not positive
TicksNeeded ==
    IF configured_duration <= 0 THEN 0
    ELSE (configured_duration + configured_update_interval - 1) \div configured_update_interval

\* when run() has returned, stop() was executed, the loop made
\* ceil(duration / update_interval) ticks and current_time is their total
RunExitState ==
    engine_pc = "returned" =>
        /\ ~running
        /\ reports >= 1
        /\ ticks_done = TicksNeeded
        /\ current_time = ticks_done * configured_update_interval

\* the variant of the loop: every completed tick brings current_time closer
\* to the configured duration
TickAdvancesTime ==
    [][ticks_done' = ticks_done + 1 => current_time' > current_time]_vars

\* C30: run() always terminates: for every configured duration and
\* update_interval every tick advances current_time towards the duration, the
\* loop ends after ceil(duration / update_interval) ticks with current_time
\* the number of completed ticks times update_interval, and on exit stop() has
\* been executed, running is false and the final report was produced.
C30_RunAlwaysTerminates ==
    /\ TickAdvancesTime
    /\ []RunExitState
    /\ <>(engine_pc = "returned")

\* the same for the configurations whose update_interval is positive
TerminatesWhenIntervalPositive ==
    /\ [][(configured_update_interval > 0 /\ ticks_done' = ticks_done + 1)
              => current_time' > current_time]_vars
    /\ []RunExitState
    /\ (configured_update_interval > 0) => <>(engine_pc = "returned")

====
